---- MODULE Spec2Model ----
(***************************************************************************)
(* Load-balancer control plane: the Load-Balancer Actor (LoadBalancerDO),  *)
(* its durable alarm, the Monitor Workflow it spawns, the registry actor   *)
(* (LoadBalancerRegistryDO) and the Deployment Workflow.  Line numbers     *)
(* refer to src/unnamed/part_000 (the LoadBalancerDO class) unless another *)
(* file is named.                                                          *)
(***************************************************************************)
EXTENDS Integers, Sequences, FiniteSets, TLC

VARIABLES
    now,         \* Date.now(), in milliseconds
    live,        \* live[a]: the actor object is constructed and in memory
    memConfig,   \* this.config of the actor object
    stConfig,    \* storage key 'config'
    stHealth,    \* storage key 'healthStatus', keyed <<loadBalancerName, host>>
    alarm,       \* the actor's durable alarm slot
    sessions,    \* this.sessions of the actor object
    broken,      \* sockets whose send() throws
    op,          \* the handler suspended at a workflow create() call, per actor
    registry,    \* storage key 'loadbalancers' of the registry actor
    wfs,         \* Monitor Workflow instances, by workflow id
    wfCount,     \* number of Monitor Workflow instances created
    lastSet,     \* config of the latest setConfig since the latest deleteAll
    hist,        \* the request that the last step completed, if any
    regLive,     \* the registry actor object is constructed and in memory
    regOp,       \* the DELETE handler of the registry suspended at a fetch
    replay,      \* initializeHealthChecks of the registry: its locals
    gone,        \* gone[n]: wfCount when n was deleted (NotGone when a config
                 \* for n was set since)
    creds,       \* the platform credentials present in env
    dwf,         \* Deployment Workflow instances, by workflow id
    active,      \* this.activeWorkflows of the actor 'default'
    ext          \* the external platform: its snippets and its snippet rules

regVars == <<regLive, regOp, replay>>

depVars == <<creds, dwf, active, ext>>

vars == <<now, live, memConfig, stConfig, stHealth, alarm, sessions, broken,
          op, registry, wfs, wfCount, lastSet, hist, regLive, regOp, replay,
          gone, creds, dwf, active, ext>>

----------------------------------------------------------------------------
(* Bounds of the model *)

MaxTicks == 2
MaxWorkflows == 2
MaxDeployments == 1
MaxCrashes == 1
MaxRules == 2
MaxRacing == 2
MaxTracked == 2
MaxNamed == 2

(* Program constants *)

MsPerSecond == 1000
DefaultProbeInterval == 30
UpdateDefaultSeconds == 30
HealthyBelow == 400
MonitorRetries == 2
CheckRetries == 3
DeployRetries == 5
RulesRetries == 3

TickMs == DefaultProbeInterval * MsPerSecond

Actors == {"lb1"}
Names == {"lb1", "lb2"}
Instances == Names \cup {"default"}
Aliases == {"LB1"}
Objects == Instances \cup Aliases
Shapes == {<<30, <<>> >>, <<60, <<"h1">> >>, <<30, <<"h1", "h2">> >>}
SessionIds == {"s1"}
Statuses == {399, 400}
ConnectionFailed == 0
CompletedId == 0

NoAlarm == -1
NoWorkflow == 0
NotGone == -1
NoConfig == [name |-> "", hosts |-> <<>>, probeInterval |-> 0, probePath |-> ""]

Range(s) == {s[i] : i \in DOMAIN s}

----------------------------------------------------------------------------
(* Data *)

DefaultConfig ==
    [name |-> "default", hosts |-> <<>>,
     probeInterval |-> DefaultProbeInterval, probePath |-> "/"]

PathOf(p) == IF p = DefaultProbeInterval THEN "/" ELSE "/health"

ConfigsOf(n) ==
    {[name |-> n, hosts |-> sh[2], probeInterval |-> sh[1],
      probePath |-> PathOf(sh[1])] : sh \in Shapes}

Configs == UNION {ConfigsOf(a) : a \in Actors}

EmptyTable == [k \in {} |-> TRUE]

Has(t, n, h) == <<n, h>> \in DOMAIN t

PutKey(t, key, v) ==
    [k \in DOMAIN t \cup {key} |-> IF k = key THEN v ELSE t[k]]

Put(t, n, h, r) == PutKey(t, <<n, h>>, r)

DropKey(t, key) == [k \in DOMAIN t \ {key} |-> t[k]]

NoSent == [s \in SessionIds |-> <<>>]

\* CF_ACCOUNT_ID, CF_ZONE_ID, CF_API_TOKEN
Credentials == {"account", "zone", "token"}

NoExt == [snippets |-> {}, rules |-> <<>>]

\* the workflowStatus of a message sent to the observers
NoEvent == [workflowId |-> 0, loadBalancerName |-> "", currentStep |-> "",
            completed |-> FALSE, success |-> FALSE]

\* a request of GET /api/workflow-status/<id>: the id and what status() of the
\* instance answers (step "" for an answer with no currentStep)
NoPoll == [id |-> 0, completed |-> FALSE, step |-> ""]

\* the outcome of a request for its caller: an exception (raised) or a
\* response with its status and the success and error of its body
NoResp == [raised |-> FALSE, status |-> 0, success |-> FALSE, error |-> ""]

\* what a deploy request found: the deployment state at its start and whether
\* the registry listed the load balancer
NoWas == [dwf |-> EmptyTable, active |-> EmptyTable, ext |-> NoExt,
          found |-> FALSE]

\* op[a]: the locals of the handler that is inside handleAlarm's loop
\*   kind    the request being handled ("idle" when none is)
\*   cfg, hs, i   handleAlarm's config, healthStatus and loop position
\*   arg     the request's config (setConfig)
\* and, for the properties, what the request started from:
\*   from, armed0, at   health table, alarm slot and time at the request's start
\*   armed1  the alarm slot when the loop was entered
\*   spawned, failed   create() calls that returned / threw so far
\*   made    the params of the create() calls that returned, each with the
\*           id of the returned instance, in order
\*   sent    messages pushed to each socket so far
\*   twice   the request repeats the request completed by the previous step
\*   late    the request is not a setConfig and started after cfg's load
\*           balancer was deleted
IdleOp == [kind |-> "idle", cfg |-> NoConfig, arg |-> NoConfig,
           hs |-> EmptyTable, i |-> 0,
           from |-> EmptyTable, armed0 |-> NoAlarm, armed1 |-> NoAlarm, at |-> 0,
           spawned |-> 0, failed |-> 0, sent |-> NoSent, twice |-> FALSE,
           late |-> FALSE, made |-> <<>>]

Idle(a) == op[a].kind = "idle"

\* hist: the request completed by the last step (kind "none" when the last
\* step completed none; kind "pruned" when the last step took a setConfig up
\* to the first create()): the fields of op[a] at its end, and
\*   actor   the actor that handled it
\*   ok      the response reports success
\*   body    the config in the response body (getConfig)
\*   host, healthy   the endpoint and verdict of a health update
\*   looped  the request went through handleAlarm's loop
\*   payload the health table carried by the message of an attach
\*   status, probes   the outcome of the probe of a Monitor Workflow and the
\*           number of times its check-endpoint function ran
\* and for a request of the registry
\*   name    the load balancer named by a DELETE
\*   before  the stored map just before the put of a DELETE
\*   array   the list a DELETE puts, broadcasts and returns
\*   list    the body of the response to GET /api/loadbalancers
\*   failing the actors whose fetch threw during that GET
\* and for a register request
\*   resp    the outcome for the caller
\* and for a deploy request
\*   was     what the request found (NoWas for another request)
\* and for a request that calls broadcastWorkflowUpdate
\*   event   the workflowStatus of the message
\*   poll    the request of GET /api/workflow-status/<id>
NoHist == [kind |-> "none", actor |-> "", cfg |-> NoConfig, ok |-> FALSE,
           body |-> NoConfig, from |-> EmptyTable, armed0 |-> NoAlarm,
           armed1 |-> NoAlarm, at |-> 0, spawned |-> 0, failed |-> 0,
           sent |-> NoSent, twice |-> FALSE, host |-> "", healthy |-> FALSE,
           looped |-> FALSE, payload |-> EmptyTable, name |-> "",
           before |-> EmptyTable, array |-> EmptyTable, list |-> EmptyTable,
           failing |-> {}, was |-> NoWas, made |-> <<>>, status |-> 0,
           probes |-> 0, event |-> NoEvent, poll |-> NoPoll, resp |-> NoResp]

\* the handler of request `kind` on actor a enters handleAlarm's loop
LoopOp(kind, cfg, arg, table, armed0, armed1, snt, twice, from) ==
    [kind |-> kind, cfg |-> cfg, arg |-> arg, hs |-> table, i |-> 1,
     from |-> from, armed0 |-> armed0, armed1 |-> armed1, at |-> now,
     spawned |-> 0, failed |-> 0, sent |-> snt, twice |-> twice,
     late |-> /\ kind # "setConfig"
              /\ cfg.name \in DOMAIN gone
              /\ gone[cfg.name] # NotGone,
     made |-> <<>>]

\* a request that never entered the loop, as if it had left it at once
Straight(kind, cfg, arg, armed0, armed1, snt, twice, from) ==
    [LoopOp(kind, cfg, arg, from, armed0, armed1, snt, twice, from)
        EXCEPT !.i = 0]

\* the record of the request that o was handling, now completed
Done(a, o, ok, body, snt) ==
    [kind |-> o.kind, actor |-> a, cfg |-> IF o.kind = "setConfig" THEN o.arg
                                            ELSE o.cfg,
     ok |-> ok, body |-> body, from |-> o.from, armed0 |-> o.armed0,
     armed1 |-> o.armed1, at |-> o.at, spawned |-> o.spawned,
     failed |-> o.failed, sent |-> snt, twice |-> o.twice,
     host |-> "", healthy |-> FALSE, looped |-> o.i > 0,
     payload |-> EmptyTable, name |-> "", before |-> EmptyTable,
     array |-> EmptyTable, list |-> EmptyTable, failing |-> {},
     was |-> NoWas, made |-> o.made, status |-> 0, probes |-> 0,
     event |-> NoEvent, poll |-> NoPoll, resp |-> NoResp]

\* regOp: the locals of the registry's DELETE handler
\*   name    the name in the request path
\*   snap    loadBalancers, the map read at line 63
\*   pc      "actor": awaiting the actor's delete; "put": the actor answered;
\*           "broadcast": awaiting the default actor's broadcast-update
\*   before  the stored map just before the put of line 74
IdleReg == [kind |-> "idle", name |-> "", snap |-> EmptyTable, pc |-> "",
            before |-> EmptyTable]

\* replay: the locals of initializeHealthChecks
\*   snap    loadBalancers, the map read at line 20
\*   left    the entries the loop has still to visit, in order
\*   await   the actor whose answer the loop awaits ("" when none)
NoReplay == [snap |-> EmptyTable, left |-> <<>>, await |-> ""]

\* the loop of initializeHealthChecks moves past its current entry
Advanced(r) == IF Len(r.left) = 1 THEN NoReplay
               ELSE [r EXCEPT !.await = "", !.left = Tail(@)]

\* the orders Object.entries can give the keys of S
Orders(S) == {q \in [1..Cardinality(S) -> S] : Range(q) = S}

----------------------------------------------------------------------------
(* Helpers of LoadBalancerDO *)

\* AlarmMissing with the result of getAlarm() ignored
AlarmAlwaysMissing(al) == TRUE

\* `if (!alarm)` on the result of storage.getAlarm()
AlarmMissing(al) == al = NoAlarm \/ al = 0

\* scheduleNextHealthCheck: Date.now() + this.config ... probeInterval * 1000
NextCheckTime(cfg, t) == t + cfg.probeInterval * MsPerSecond

\* the filter of broadcastHealthStatus / broadcastConfigUpdate: a socket whose
\* send throws is dropped from this.sessions
Survivors(ss) == SelectSeq(ss, LAMBDA s : s \notin broken)

Push(log, ss, type) ==
    [s \in SessionIds |->
        IF s \in Range(ss) /\ s \notin broken THEN Append(log[s], type)
        ELSE log[s]]

\* Pruned without the filter on the new hosts
PrunedKeepsAll(t, cfg) == t

\* updateConfig, lines 839-853: the table put under 'healthStatus'
Pruned(t, cfg) ==
    [k \in {<<cfg.name, cfg.hosts[i]>> : i \in DOMAIN cfg.hosts} \cap DOMAIN t
        |-> t[k]]

\* SpawnRecord with the spread of the existing record last, so that the
\* existing workflow id wins
SpawnRecordSpreadLast(t, cfg, h, id, at) ==
    [workflowId |-> IF Has(t, cfg.name, h) THEN t[<<cfg.name, h>>].workflowId
                    ELSE id,
     nextCheck |-> at + cfg.probeInterval * MsPerSecond,
     isHealthy |-> IF Has(t, cfg.name, h) THEN t[<<cfg.name, h>>].isHealthy
                   ELSE FALSE,
     lastChecked |-> IF Has(t, cfg.name, h) THEN t[<<cfg.name, h>>].lastChecked
                     ELSE at]

\* handleAlarm, lines 795-802: the record written for a host after create()
SpawnRecord(t, cfg, h, id, at) ==
    [workflowId |-> id,
     nextCheck |-> at + cfg.probeInterval * MsPerSecond,
     isHealthy |-> IF Has(t, cfg.name, h) THEN t[<<cfg.name, h>>].isHealthy
                   ELSE FALSE,
     lastChecked |-> IF Has(t, cfg.name, h) THEN t[<<cfg.name, h>>].lastChecked
                     ELSE at]

\* UpdateRecord with the spread of the existing record last, so that the
\* existing verdict wins
UpdateRecordSpreadLast(t, n, h, healthy, ts) ==
    [workflowId |-> IF Has(t, n, h) THEN t[<<n, h>>].workflowId ELSE NoWorkflow,
     isHealthy |-> IF Has(t, n, h) THEN t[<<n, h>>].isHealthy ELSE healthy,
     lastChecked |-> IF Has(t, n, h) THEN t[<<n, h>>].lastChecked ELSE ts,
     nextCheck |-> IF Has(t, n, h) THEN t[<<n, h>>].nextCheck
                   ELSE ts + UpdateDefaultSeconds * MsPerSecond]

\* /api/health-status/update, lines 266-271: the record written for the host
UpdateRecord(t, n, h, healthy, ts) ==
    [workflowId |-> IF Has(t, n, h) THEN t[<<n, h>>].workflowId ELSE NoWorkflow,
     isHealthy |-> healthy,
     lastChecked |-> ts,
     nextCheck |-> ts + UpdateDefaultSeconds * MsPerSecond]

\* the websocket upgrade branch of fetch, lines 115-118: the healthStatus of
\* the initialHealthStatus message sent to the new socket, for an actor whose
\* stored table is t
InitialHealthStatus(t) == EmptyTable

\* EnsuredAlarm without the call of scheduleNextHealthCheck
EnsuredAlarmLeftAlone(al, cfg, t) == al

\* ensureAlarmAndMonitoring, lines 886-889: the alarm slot after the test of
\* getAlarm() and the scheduleNextHealthCheck it leads to
EnsuredAlarm(al, cfg, t) ==
    IF AlarmMissing(al) THEN NextCheckTime(cfg, t) ELSE al

\* handleAlarm, line 761: the early return
NothingToCheck(cfg) == cfg = NoConfig \/ Len(cfg.hosts) = 0

\* /api/loadbalancer/delete, lines 320-324
WithoutName(t, n) == [k \in {x \in DOMAIN t : x[1] # n} |-> t[k]]

\* MonitorEndpointWorkflow check-endpoint (src/unnamed/part_003 lines 46-74)
ProbeHealthy(status) == status # ConnectionFailed /\ status < HealthyBelow

\* ProbeThrows without the catch of lines 65-74
ProbeThrowsOnFailure(status) == status = ConnectionFailed

\* check-endpoint, part_003 lines 42-75: the step's function throws for this
\* outcome of its fetch (the try of line 46 encloses the whole body)
ProbeThrows(status) == FALSE

\* step.do of check-endpoint, part_003 lines 33-41: the times the function
\* runs when every fetch has the same outcome
ProbeRuns(status) == IF ProbeThrows(status) THEN MonitorRetries + 1 ELSE 1

\* ListHealth with one key for every record the actor holds under n, instead
\* of one for every host of the config that has a record
ListHealthAllRecords(n) ==
    LET t == stHealth[n]
    IN  [h \in {k[2] : k \in {x \in DOMAIN t : x[1] = n}} |->
            [isHealthy |-> t[<<n, h>>].isHealthy = TRUE,
             lastChecked |-> t[<<n, h>>].lastChecked,
             nextCheck |-> t[<<n, h>>].nextCheck,
             workflowId |-> t[<<n, h>>].workflowId]]

\* GET /api/loadbalancers of the registry (src/src/loadBalancerRegistryDO.ts
\* lines 115-129): the healthStatus map of the entry of load balancer n, built
\* from the answer of the actor addressed by n
ListHealth(n) ==
    LET cfg == registry[n]
        t == stHealth[n]
    IN  [h \in {x \in Range(cfg.hosts) : Has(t, n, x)} |->
            [isHealthy |-> t[<<n, h>>].isHealthy = TRUE,
             lastChecked |-> t[<<n, h>>].lastChecked,
             nextCheck |-> t[<<n, h>>].nextCheck,
             workflowId |-> t[<<n, h>>].workflowId]]

----------------------------------------------------------------------------
Init ==
    /\ now = 0
    /\ live = [a \in Objects |-> FALSE]
    /\ memConfig = [a \in Objects |-> DefaultConfig]
    /\ stConfig = [a \in Objects |-> NoConfig]
    /\ stHealth = [a \in Objects |-> EmptyTable]
    /\ alarm = [a \in Objects |-> NoAlarm]
    /\ sessions = [a \in Objects |-> <<>>]
    /\ broken = {}
    /\ op = [a \in Objects |-> IdleOp]
    /\ registry = EmptyTable
    /\ wfs = EmptyTable
    /\ wfCount = 0
    /\ lastSet = [a \in Objects |-> NoConfig]
    /\ hist = NoHist
    /\ regLive = FALSE
    /\ regOp = IdleReg
    /\ replay = NoReplay
    /\ gone = [n \in Objects |-> NotGone]
    /\ creds = {}
    /\ dwf = EmptyTable
    /\ active = EmptyTable
    /\ ext = NoExt

----------------------------------------------------------------------------
(* The clock and the actor object's life cycle *)

Tick ==
    /\ now < MaxTicks * TickMs
    /\ now' = now + TickMs
    /\ hist' = NoHist
    /\ UNCHANGED <<live, memConfig, stConfig, stHealth, alarm, sessions, broken,
                   op, registry, wfs, wfCount, lastSet>>
    /\ UNCHANGED <<regVars, gone>>
    /\ UNCHANGED depVars

\* constructor, lines 81-101
Construct(a) ==
    /\ ~live[a]
    /\ live' = [live EXCEPT ![a] = TRUE]
    /\ memConfig' = [memConfig EXCEPT ![a] = DefaultConfig]
    /\ sessions' = [sessions EXCEPT ![a] = <<>>]
    /\ alarm' = [alarm EXCEPT ![a] =
            IF AlarmMissing(@) THEN NextCheckTime(DefaultConfig, now) ELSE @]
    /\ hist' = NoHist
    /\ UNCHANGED <<now, stConfig, stHealth, broken, op, registry, wfs, wfCount,
                   lastSet>>
    /\ UNCHANGED <<regVars, gone>>
    /\ UNCHANGED depVars

\* the runtime discards the idle actor object; storage and alarm survive
Evict(a) ==
    /\ live[a] /\ Idle(a)
    /\ live' = [live EXCEPT ![a] = FALSE]
    /\ memConfig' = [memConfig EXCEPT ![a] = DefaultConfig]
    /\ sessions' = [sessions EXCEPT ![a] = <<>>]
    /\ broken' = broken \ Range(sessions[a])
    /\ hist' = NoHist
    /\ UNCHANGED <<now, stConfig, stHealth, alarm, op, registry, wfs, wfCount,
                   lastSet>>
    /\ UNCHANGED <<regVars, gone>>
    /\ active' = IF a = "default" THEN EmptyTable ELSE active
    /\ UNCHANGED <<creds, dwf, ext>>

----------------------------------------------------------------------------
(* Observer sockets *)

\* fetch with an Upgrade: websocket header, lines 106-134
Attach(a, s) ==
    /\ live[a] /\ Idle(a)
    /\ \A b \in Instances : s \notin Range(sessions[b])
    /\ sessions' = [sessions EXCEPT ![a] = Append(@, s)]
    /\ hist' = [Done(a, Straight("attach", stConfig[a], NoConfig, alarm[a],
                                 alarm[a], NoSent, FALSE, stHealth[a]),
                     TRUE, NoConfig,
                     [NoSent EXCEPT ![s] = <<"initialHealthStatus">>])
                 EXCEPT !.payload = InitialHealthStatus(stHealth[a])]
    /\ UNCHANGED <<now, live, memConfig, stConfig, stHealth, alarm, broken, op,
                   registry, wfs, wfCount, lastSet>>
    /\ UNCHANGED <<regVars, gone>>
    /\ UNCHANGED depVars

\* the 'close' / 'error' listeners, lines 122-128
Close(a, s) ==
    /\ live[a]
    /\ s \in Range(sessions[a])
    /\ sessions' = [sessions EXCEPT ![a] = SelectSeq(@, LAMBDA x : x # s)]
    /\ broken' = broken \ {s}
    /\ hist' = NoHist
    /\ UNCHANGED <<now, live, memConfig, stConfig, stHealth, alarm, op,
                   registry, wfs, wfCount, lastSet>>
    /\ UNCHANGED <<regVars, gone>>
    /\ UNCHANGED depVars

\* the peer of an attached socket goes away without a close event
Break(a, s) ==
    /\ live[a]
    /\ s \in Range(sessions[a]) /\ s \notin broken
    /\ broken' = broken \cup {s}
    /\ hist' = NoHist
    /\ UNCHANGED <<now, live, memConfig, stConfig, stHealth, alarm, sessions,
                   op, registry, wfs, wfCount, lastSet>>
    /\ UNCHANGED <<regVars, gone>>
    /\ UNCHANGED depVars

----------------------------------------------------------------------------
(* Requests of the Load-Balancer Actor *)

\* initializeHealthChecks awaits the answer of actor a: the answer takes the
\* loop to its next entry
Answered(r, a) == IF r.await = a THEN Advanced(r) ELSE r

\* RegisterResponse without the try/catch of lines 145-173
RegisterResponseUncaught(threw) ==
    IF threw THEN [NoResp EXCEPT !.raised = TRUE]
    ELSE [NoResp EXCEPT !.status = 200, !.success = TRUE]

\* POST /api/loadbalancer, lines 145-173: the outcome of the request when the
\* fetch of the registry has returned or thrown
RegisterResponse(threw) ==
    IF threw
    THEN [NoResp EXCEPT !.status = 500,
                        !.error = "Failed to register load balancer"]
    ELSE [NoResp EXCEPT !.status = 200, !.success = TRUE]

\* POST /api/loadbalancer after updateConfig, lines 141-173: the call to the
\* registry (register, src/src/loadBalancerRegistryDO.ts lines 43-57), which
\* returns (ok) or throws, and the second broadcastConfigUpdate.  A registry
\* object that is not in memory is constructed for the call, and its
\* constructor (lines 9-21) starts initializeHealthChecks on the stored map.
\* The response of the request answers the caller
RegisterTail(a, o, ss, ok) ==
    /\ registry' = IF ok THEN PutKey(registry, o.arg.name, o.arg) ELSE registry
    /\ sessions' = [sessions EXCEPT ![a] = IF ok THEN Survivors(ss) ELSE ss]
    /\ hist' = [Done(a, o, ok, NoConfig,
                     IF ok THEN Push(o.sent, ss, "configUpdate") ELSE o.sent)
                 EXCEPT !.resp = RegisterResponse(~ok)]
    /\ IF ok /\ ~regLive
       THEN /\ regLive' = TRUE
            /\ \E q \in Orders(DOMAIN registry) :
                    replay' = [NoReplay EXCEPT !.snap = registry, !.left = q]
       ELSE /\ UNCHANGED regLive
            /\ replay' = Answered(replay, a)

\* POST /api/loadbalancer, lines 136-174, with updateConfig, lines 832-871,
\* up to the first create() of handleAlarm when updateConfig calls it
SetConfig(a, c, ok) ==
    /\ live[a] /\ Idle(a)
    /\ LET T == stHealth[a]
           pruned == Pruned(T, c)
           ss1 == Survivors(sessions[a])
           snt == Push(Push(NoSent, sessions[a], "configUpdate"),
                       ss1, "healthStatusUpdate")
           twice == hist.kind = "setConfig" /\ hist.actor = a /\ hist.cfg = c
           missing == AlarmMissing(alarm[a])
           al1 == IF missing /\ NothingToCheck(c) THEN alarm[a]
                  ELSE NextCheckTime(c, now)
       IN  /\ memConfig' = [memConfig EXCEPT ![a] = c]
           /\ stConfig' = [stConfig EXCEPT ![a] = c]
           /\ lastSet' = [lastSet EXCEPT ![a] = c]
           /\ stHealth' = [stHealth EXCEPT ![a] = pruned]
           /\ alarm' = [alarm EXCEPT ![a] = al1]
           /\ IF missing /\ ~NothingToCheck(c)
              THEN /\ op' = [op EXCEPT ![a] =
                          LoopOp("setConfig", c, c, pruned, alarm[a], al1, snt,
                                 twice, T)]
                   /\ sessions' = [sessions EXCEPT ![a] = ss1]
                   /\ hist' = [Done(a, Straight("setConfig", c, c, alarm[a],
                                                al1, snt, twice, T),
                                    TRUE, NoConfig, snt)
                                EXCEPT !.kind = "pruned"]
                   /\ UNCHANGED <<registry, regLive, replay>>
              ELSE /\ UNCHANGED op
                   /\ RegisterTail(a, Straight("setConfig", c, c, alarm[a],
                                               al1, snt, twice, T), ss1, ok)
    /\ gone' = [gone EXCEPT ![c.name] = NotGone]
    /\ UNCHANGED <<now, live, broken, wfs, wfCount, regOp>>
    /\ UNCHANGED depVars

\* GET /api/loadbalancer, lines 176-179, with ensureAlarmAndMonitoring,
\* lines 882-896, up to the first create() of handleAlarm
GetConfig(a) ==
    /\ live[a] /\ Idle(a)
    /\ LET missing == AlarmMissing(alarm[a])
           al1 == EnsuredAlarm(alarm[a], memConfig[a], now)
       IN  /\ alarm' = [alarm EXCEPT ![a] = al1]
           /\ IF missing /\ ~NothingToCheck(stConfig[a])
              THEN /\ op' = [op EXCEPT ![a] =
                          LoopOp("getConfig", stConfig[a], NoConfig, stHealth[a],
                                 alarm[a], al1, NoSent, FALSE, stHealth[a])]
                   /\ hist' = NoHist
              ELSE /\ UNCHANGED op
                   /\ hist' = Done(a, Straight("getConfig", stConfig[a], NoConfig,
                                               alarm[a], al1, NoSent, FALSE,
                                               stHealth[a]),
                                   TRUE, memConfig[a], NoSent)
    /\ UNCHANGED <<now, live, memConfig, stConfig, stHealth, sessions, broken,
                   registry, wfs, wfCount, lastSet>>
    /\ UNCHANGED <<regVars, gone>>
    /\ UNCHANGED depVars

\* alarm(), lines 874-880: the runtime delivers the due alarm, which empties
\* the alarm slot, and handleAlarm, lines 756-776, runs up to its first create()
AlarmFire(a) ==
    /\ live[a] /\ Idle(a)
    /\ ~AlarmMissing(alarm[a]) /\ now >= alarm[a]
    /\ IF NothingToCheck(stConfig[a])
       THEN /\ alarm' = [alarm EXCEPT ![a] = NoAlarm]
            /\ UNCHANGED op
            /\ hist' = Done(a, Straight("alarm", stConfig[a], NoConfig, alarm[a],
                                        NoAlarm, NoSent, FALSE, stHealth[a]),
                            TRUE, NoConfig, NoSent)
       ELSE /\ alarm' = [alarm EXCEPT ![a] = NextCheckTime(memConfig[a], now)]
            /\ op' = [op EXCEPT ![a] =
                    LoopOp("alarm", stConfig[a], NoConfig, stHealth[a], alarm[a],
                           NextCheckTime(memConfig[a], now), NoSent, FALSE,
                           stHealth[a])]
            /\ hist' = NoHist
    /\ UNCHANGED <<now, live, memConfig, stConfig, stHealth, sessions, broken,
                   registry, wfs, wfCount, lastSet>>
    /\ UNCHANGED <<regVars, gone>>
    /\ UNCHANGED depVars

\* NextHost without the try/catch around create(): a throw leaves the loop
NextHostAbort(i, n, threw) == IF threw THEN n + 1 ELSE i + 1

\* handleAlarm, line 779: the loop position after the create() for host i
NextHost(i, n, threw) == i + 1

\* handleAlarm, lines 779-806: one turn of the loop; create() returns a new
\* workflow instance or throws
Spawn(a) ==
    /\ ~Idle(a)
    /\ op[a].i <= Len(op[a].cfg.hosts)
    /\ LET o == op[a]
           h == o.cfg.hosts[o.i]
           id == wfCount + 1
       IN  \/ /\ wfCount < MaxWorkflows
              /\ wfCount' = id
              /\ wfs' = PutKey(wfs, id,
                            [name |-> o.cfg.name, host |-> h,
                             path |-> o.cfg.probePath])
              /\ op' = [op EXCEPT ![a].hs =
                                    Put(@, o.cfg.name, h,
                                        SpawnRecord(@, o.cfg, h, id, now)),
                                  ![a].i = NextHost(@, Len(o.cfg.hosts), FALSE),
                                  ![a].spawned = @ + 1,
                                  ![a].made =
                                    Append(@, [id |-> id, name |-> o.cfg.name,
                                               host |-> h,
                                               path |-> o.cfg.probePath])]
           \/ /\ op' = [op EXCEPT ![a].i = NextHost(@, Len(o.cfg.hosts), TRUE),
                                  ![a].failed = @ + 1]
              /\ UNCHANGED <<wfs, wfCount>>
    /\ hist' = NoHist
    /\ UNCHANGED <<now, live, memConfig, stConfig, stHealth, alarm, sessions,
                   broken, registry, lastSet>>
    /\ UNCHANGED <<regVars, gone>>
    /\ UNCHANGED depVars

\* handleAlarm, lines 808-809, and the rest of the request that called it
Finish(a, ok) ==
    /\ ~Idle(a)
    /\ op[a].i > Len(op[a].cfg.hosts)
    /\ stHealth' = [stHealth EXCEPT ![a] = op[a].hs]
    /\ op' = [op EXCEPT ![a] = IdleOp]
    /\ IF op[a].kind = "setConfig"
       THEN RegisterTail(a, op[a], sessions[a], ok)
       ELSE /\ hist' = Done(a, op[a], TRUE,
                            IF op[a].kind = "getConfig" THEN memConfig[a]
                            ELSE NoConfig, op[a].sent)
            /\ UNCHANGED <<registry, sessions, regLive, replay>>
    /\ UNCHANGED <<now, live, memConfig, stConfig, alarm, broken, wfs, wfCount,
                   lastSet, regOp, gone>>
    /\ UNCHANGED depVars

\* DELETE /api/loadbalancer/delete, lines 309-330; the response answers the
\* registry's DELETE handler when that awaits it
Delete(a) ==
    /\ live[a] /\ Idle(a)
    /\ alarm' = [alarm EXCEPT ![a] = NoAlarm]
    /\ stHealth' = [stHealth EXCEPT ![a] =
            IF stConfig[a] # NoConfig THEN WithoutName(@, stConfig[a].name)
            ELSE @]
    /\ stConfig' = [stConfig EXCEPT ![a] = NoConfig]
    /\ lastSet' = [lastSet EXCEPT ![a] = NoConfig]
    /\ hist' = Done(a, Straight("delete", stConfig[a], NoConfig, alarm[a],
                                NoAlarm, NoSent, FALSE, stHealth[a]),
                    TRUE, NoConfig, NoSent)
    /\ regOp' = IF regOp.pc = "actor" /\ regOp.name = a
                 THEN [regOp EXCEPT !.pc = "put"] ELSE regOp
    /\ gone' = [gone EXCEPT ![a] = wfCount]
    /\ UNCHANGED <<now, live, memConfig, sessions, broken, op, registry, wfs,
                   wfCount, regLive, replay>>
    /\ UNCHANGED depVars

----------------------------------------------------------------------------
(* Monitor Workflow, src/unnamed/part_003 *)

\* run, lines 27-123: step check-endpoint, whose fetch answers with a status
\* or fails, then step update-health-status with the actor's handler of
\* POST /api/health-status/update, part_000 lines 253-282.  The handler awaits
\* storage only, so it runs in one piece, also while another handler of the
\* actor is suspended at a create() call.  A check-endpoint whose function
\* throws at every attempt ends the run before the second step
MonitorRun(id, status) ==
    /\ id \in DOMAIN wfs
    /\ LET w == wfs[id]
           a == w.name
           T == stHealth[a]
           healthy == ProbeHealthy(status)
       IN  IF ProbeThrows(status)
           THEN /\ hist' = [NoHist EXCEPT !.kind = "probeFailed", !.actor = a,
                                          !.host = w.host, !.status = status,
                                          !.probes = ProbeRuns(status)]
                /\ UNCHANGED <<stHealth, sessions>>
           ELSE /\ a \in Instances
                /\ live[a]
                /\ stHealth' = [stHealth EXCEPT ![a] =
                        Put(T, w.name, w.host,
                            UpdateRecord(T, w.name, w.host, healthy, now))]
                /\ sessions' = [sessions EXCEPT ![a] = Survivors(@)]
                /\ hist' = [Done(a, Straight("healthUpdate", stConfig[a],
                                             NoConfig, alarm[a], alarm[a],
                                             NoSent, FALSE, T),
                                 TRUE, NoConfig,
                                 Push(NoSent, sessions[a],
                                      "healthStatusUpdate"))
                             EXCEPT !.host = w.host, !.healthy = healthy,
                                    !.status = status,
                                    !.probes = ProbeRuns(status)]
    /\ wfs' = DropKey(wfs, id)
    /\ UNCHANGED <<now, live, memConfig, stConfig, alarm, broken, op, registry,
                   wfCount, lastSet>>
    /\ UNCHANGED <<regVars, gone>>
    /\ UNCHANGED depVars

----------------------------------------------------------------------------
(* Registry actor, src/src/loadBalancerRegistryDO.ts *)

\* constructor, lines 9-16, with initializeHealthChecks up to its loop,
\* lines 18-22
RegConstruct ==
    /\ ~regLive
    /\ regLive' = TRUE
    /\ \E q \in Orders(DOMAIN registry) :
            replay' = [NoReplay EXCEPT !.snap = registry, !.left = q]
    /\ hist' = NoHist
    /\ UNCHANGED <<now, live, memConfig, stConfig, stHealth, alarm, sessions,
                   broken, op, registry, wfs, wfCount, lastSet, regOp, gone>>
    /\ UNCHANGED depVars

\* the runtime discards the registry object when nothing of it is pending
RegEvict ==
    /\ regLive /\ regOp = IdleReg /\ replay.left = <<>>
    /\ regLive' = FALSE
    /\ replay' = NoReplay
    /\ hist' = NoHist
    /\ UNCHANGED <<now, live, memConfig, stConfig, stHealth, alarm, sessions,
                   broken, op, registry, wfs, wfCount, lastSet, regOp, gone>>
    /\ UNCHANGED depVars

\* initializeHealthChecks, lines 22-36: the loop sends the next entry to the
\* actor addressed by its name; the fetch throws, which the catch of line 33
\* logs, or it reaches the actor
ReplayCall(threw) ==
    /\ regLive
    /\ replay.left # <<>> /\ replay.await = ""
    /\ replay' = IF threw THEN Advanced(replay)
                 ELSE [replay EXCEPT !.await = replay.left[1]]
    /\ hist' = [NoHist EXCEPT !.kind = IF threw THEN "replayThrew" ELSE "none",
                              !.name = IF threw THEN replay.left[1] ELSE "",
                              !.before = IF threw THEN replay.snap
                                         ELSE EmptyTable]
    /\ UNCHANGED <<now, live, memConfig, stConfig, stHealth, alarm, sessions,
                   broken, op, registry, wfs, wfCount, lastSet, regLive, regOp,
                   gone>>
    /\ UNCHANGED depVars

\* the actor addressed by n handles the POST /api/loadbalancer that
\* initializeHealthChecks sent it (lines 29-33)
Replayed(n, ok) ==
    /\ replay.await = n
    /\ SetConfig(n, replay.snap[n], ok)

\* DELETE /api/loadbalancer/:name, lines 59-70, up to the fetch of the
\* actor's delete
RegDelete(n) ==
    /\ regLive /\ regOp = IdleReg
    /\ regOp' = [IdleReg EXCEPT !.kind = "delete", !.name = n,
                                !.snap = registry, !.pc = "actor"]
    /\ hist' = NoHist
    /\ UNCHANGED <<now, live, memConfig, stConfig, stHealth, alarm, sessions,
                   broken, op, registry, wfs, wfCount, lastSet, regLive, replay,
                   gone>>
    /\ UNCHANGED depVars

\* the actor addressed by the name handles the delete the registry sent it
RegDeleteActor ==
    /\ regOp.pc = "actor"
    /\ Delete(regOp.name)

\* lines 73-82: the entry is deleted from the map read at line 63, the map is
\* put and the updated list is built from it
RegDeletePut ==
    /\ regOp.pc = "put"
    /\ registry' = DropKey(regOp.snap, regOp.name)
    /\ regOp' = [regOp EXCEPT !.pc = "broadcast", !.before = registry]
    /\ hist' = NoHist
    /\ UNCHANGED <<now, live, memConfig, stConfig, stHealth, alarm, sessions,
                   broken, op, wfs, wfCount, lastSet, regLive, replay, gone>>
    /\ UNCHANGED depVars

\* lines 85-100: the default actor handles /api/broadcast-update (part_000
\* lines 333-337) and the registry answers with the updated list; or a fetch
\* of the handler throws and the request fails
RegDeleteEnd(ok) ==
    /\ regOp.kind = "delete"
    /\ IF ok
       THEN /\ regOp.pc = "broadcast"
            /\ live["default"]
            /\ sessions' = [sessions EXCEPT !["default"] = Survivors(@)]
       ELSE UNCHANGED sessions
    /\ regOp' = IdleReg
    /\ hist' = [NoHist EXCEPT !.kind = "regDelete", !.ok = ok,
                              !.name = regOp.name, !.before = regOp.before,
                              !.array = DropKey(regOp.snap, regOp.name),
                              !.sent = Push(NoSent, sessions["default"],
                                            "loadBalancersUpdate")]
    /\ UNCHANGED <<now, live, memConfig, stConfig, stHealth, alarm, broken, op,
                   registry, wfs, wfCount, lastSet, regLive, replay, gone>>
    /\ UNCHANGED depVars

\* GET /api/loadbalancers, lines 116-135: the entry of load balancer n
ListEntry(n) ==
    [name |-> registry[n].name, config |-> registry[n],
     healthStatus |-> ListHealth(n)]

\* GET /api/loadbalancers, lines 103-155; the fetch of the actors in
\* `failing` throws
List(failing) ==
    /\ regLive
    /\ failing \subseteq DOMAIN registry
    /\ \A n \in DOMAIN registry \ failing : live[n]
    /\ hist' = [NoHist EXCEPT !.kind = "list", !.ok = (failing = {}),
                              !.failing = failing,
                              !.list = IF failing = {}
                                       THEN [n \in DOMAIN registry
                                                |-> ListEntry(n)]
                                       ELSE EmptyTable]
    /\ UNCHANGED <<now, live, memConfig, stConfig, stHealth, alarm, sessions,
                   broken, op, registry, wfs, wfCount, lastSet, regVars, gone>>
    /\ UNCHANGED depVars

----------------------------------------------------------------------------
(* Deployment: POST /api/loadbalancer/deploy-snippet of the actor 'default' *)
(* (part_000) and DeploySnippetWorkflow (src/unnamed/part_002)              *)

\* the characters of a load balancer's name
Spelling(n) ==
    CASE n = "lb1" -> <<"l", "b", "1">>
      [] n = "lb2" -> <<"l", "b", "2">>
      [] n = "LB1" -> <<"L", "B", "1">>
      [] OTHER -> <<>>

\* String.toLowerCase on one character
Lower(ch) ==
    CASE ch = "L" -> "l"
      [] ch = "B" -> "b"
      [] OTHER -> ch

\* the characters of [a-z0-9_] that the names use
Allowed == {"l", "b", "1", "2", "_"}

\* sanitizeSnippetName, part_002 lines 297-299
Sanitize(q) ==
    [i \in DOMAIN q |-> IF Lower(q[i]) \in Allowed THEN Lower(q[i]) ELSE "_"]

\* CredentialsMissing with CF_ACCOUNT_ID left out of the test
CredentialsMissingButAccount(cs) ==
    "zone" \notin cs \/ "token" \notin cs

\* deploySnippet, part_000 line 575: the test of the three credentials
CredentialsMissing(cs) ==
    "account" \notin cs \/ "zone" \notin cs \/ "token" \notin cs

\* the positions of run, part_002: 1, 3, 5 the broadcastStatus calls of lines
\* 57, 87, 165; 2, 4, 6 the step.do calls of lines 58, 88, 166; 7 the
\* broadcast of completion, lines 254-264
StepAt(pc) ==
    CASE pc = 2 -> "check-snippet-exists"
      [] pc = 4 -> "deploy-snippet"
      [] pc = 6 -> "update-rules"
      [] OTHER -> ""

TextAt(pc) ==
    CASE pc = 1 -> "Checking if snippet exists..."
      [] pc = 3 -> "Deploying snippet..."
      [] pc = 5 -> "Updating routing rules..."
      [] OTHER -> ""

\* the retries.limit of each step, lines 62, 92, 170
RetriesOf(pc) ==
    CASE pc = 2 -> CheckRetries
      [] pc = 4 -> DeployRetries
      [] OTHER -> RulesRetries

\* a Deployment Workflow instance
\*   name    event.payload.loadBalancerName
\*   pc      the position of run
\*   tries   the attempts of the step at pc that threw
\*   exists, deployed, ruled   the results the engine has recorded for the
\*           three steps ("none" / FALSE when the step has no result yet)
\*   method  the method of the last request of deploy-snippet
\*   crashes, crashedAt   the restarts of run and the position of the last
\*   answers the exists calls the platform has answered
\*   events  the bodies posted to /api/broadcast-status
\*   state   "running", "done" or "failed"; failedAt  the step that failed
\*   got     the function of update-rules has fetched the rules and has not
\*           put them back yet
\*   fetched existingRules of the last run of the function of update-rules
NewWorkflow(n) ==
    [name |-> n, pc |-> 1, tries |-> 0, exists |-> "none", deployed |-> FALSE,
     ruled |-> FALSE, method |-> "", crashes |-> 0, crashedAt |-> 0,
     answers |-> 0, events |-> <<>>, state |-> "running", failedAt |-> "",
     got |-> FALSE, fetched |-> <<>>]

\* Recorded with the exists call made outside step.do
RecordedButCheck(w, pc) ==
    \/ pc = 4 /\ w.deployed
    \/ pc = 6 /\ w.ruled

\* step.do, lines 58, 88, 166: the engine holds a result for the step at pc
\* and returns it without running the step's function
Recorded(w, pc) ==
    \/ pc = 2 /\ w.exists # "none"
    \/ pc = 4 /\ w.deployed
    \/ pc = 6 /\ w.ruled

\* the body of a POST /api/broadcast-status
Event(id, w, step, completed, success, error) ==
    [workflowId |-> id, loadBalancerName |-> w.name, currentStep |-> step,
     completed |-> completed, success |-> success, error |-> error]

\* the catch of run, lines 270-293: the body names loadBalancerName (line
\* 279), which the const of line 35 declares inside the try block.  Where the
\* build keeps the block scope the evaluation throws and nothing is posted;
\* where it turns the const into a function-scoped var the body is posted
FailureEvents(id, w, posted) ==
    IF posted THEN <<Event(id, w, "Failed", TRUE, FALSE, TRUE)>> ELSE <<>>

\* POST /api/broadcast-status of the actor 'default', part_000 lines 247-251,
\* with broadcastWorkflowStatus, lines 670-694: every socket of this.sessions
\* is sent the message, a throwing send is logged and this.sessions stays
BroadcastStatus ==
    [NoHist EXCEPT !.kind = "broadcastStatus", !.actor = "default", !.ok = TRUE,
                   !.sent = Push(NoSent, sessions["default"], "workflowStatus")]

\* broadcastWorkflowUpdate, lines 729-745: the workflowStatus of the message
\* for load balancer n when this.activeWorkflows is act; the message of a load
\* balancer with no entry carries the id 'completed', the id of no instance
WorkflowUpdate(act, n) ==
    IF n \in DOMAIN act
    THEN [workflowId |-> act[n].workflowId, loadBalancerName |-> n,
          currentStep |-> act[n].currentStep, completed |-> FALSE,
          success |-> FALSE]
    ELSE [workflowId |-> CompletedId, loadBalancerName |-> n,
          currentStep |-> "", completed |-> TRUE, success |-> TRUE]

\* the worker is deployed with one more secret, with no object in memory
SetSecret(c) ==
    /\ c \notin creds
    /\ ~regLive /\ \A a \in Objects : ~live[a]
    /\ creds' = creds \cup {c}
    /\ hist' = NoHist
    /\ UNCHANGED <<now, live, memConfig, stConfig, stHealth, alarm, sessions,
                   broken, op, registry, wfs, wfCount, lastSet, regVars, gone,
                   dwf, active, ext>>

\* POST /api/loadbalancer/deploy-snippet?name=n, part_000 lines 213-237, with
\* getLoadBalancerConfig, lines 553-567 (the list of the registry answers or
\* fails), deploySnippet, lines 574-612 (create() returns or throws) and
\* trackWorkflow, lines 697-705
Deploy(n, listed, created) ==
    /\ live["default"] /\ Idle("default")
    /\ listed => regLive /\ \A m \in DOMAIN registry : live[m]
    /\ LET found == listed /\ \E m \in DOMAIN registry : registry[m].name = n
           started == found /\ ~CredentialsMissing(creds) /\ created
           id == Cardinality(DOMAIN dwf) + 1
       IN  /\ dwf' = IF started THEN PutKey(dwf, id, NewWorkflow(n)) ELSE dwf
           /\ active' = IF started
                        THEN PutKey(active, n,
                                    [workflowId |-> id,
                                     currentStep |-> "Starting deployment"])
                        ELSE active
           /\ hist' = [NoHist EXCEPT !.kind = "deploy", !.actor = "default",
                                     !.name = n, !.ok = started,
                                     !.sent = IF started
                                              THEN Push(NoSent,
                                                        sessions["default"],
                                                        "workflowStatus")
                                              ELSE NoSent,
                                     !.was = [dwf |-> dwf, active |-> active,
                                              ext |-> ext, found |-> found],
                                     !.event = IF started
                                               THEN WorkflowUpdate(active', n)
                                               ELSE NoEvent]
    /\ UNCHANGED <<now, live, memConfig, stConfig, stHealth, alarm, sessions,
                   broken, op, registry, wfs, wfCount, lastSet, regVars, gone,
                   creds, ext>>

\* Tracked with the entry looked up under the name of the instance
TrackedByName(act, id) == {n \in DOMAIN act : dwf[id].name = n}

\* updateWorkflowStatus, lines 710-713: the entries of this.activeWorkflows
\* whose workflowId is id
Tracked(act, id) == {n \in DOMAIN act : act[n].workflowId = id}

\* handleWorkflowStatus, lines 651-655: the currentStep passed on
StepLabel(completed, step) ==
    IF completed THEN "Complete"
    ELSE IF step = "" THEN "Processing" ELSE step

\* AfterStatus with the entry kept when the update is terminal
AfterStatusKept(act, n, step, completed) == [act EXCEPT ![n].currentStep = step]

\* updateWorkflowStatus, lines 717-722: this.activeWorkflows after the update
\* of the entry of load balancer n
AfterStatus(act, n, step, completed) ==
    IF completed THEN DropKey(act, n) ELSE [act EXCEPT ![n].currentStep = step]

\* GET /api/workflow-status/<id> of the actor 'default', lines 243-245, with
\* handleWorkflowStatus, lines 634-668 (status() of the instance answers
\* completed and step), updateWorkflowStatus, lines 708-726, and
\* broadcastWorkflowUpdate, lines 729-754
WorkflowStatus(id, completed, step) ==
    /\ live["default"] /\ Idle("default")
    /\ id \in DOMAIN dwf
    /\ LET found == Tracked(active, id)
           n == CHOOSE n \in found : TRUE
       IN  /\ active' = IF found = {} THEN active
                        ELSE AfterStatus(active, n, StepLabel(completed, step),
                                         completed)
           /\ hist' = [NoHist EXCEPT
                        !.kind = "workflowStatus", !.actor = "default",
                        !.ok = TRUE,
                        !.name = IF found = {} THEN "" ELSE n,
                        !.poll = [id |-> id, completed |-> completed,
                                  step |-> step],
                        !.was = [NoWas EXCEPT !.active = active, !.dwf = dwf],
                        !.event = IF found = {} THEN NoEvent
                                  ELSE WorkflowUpdate(active', n),
                        !.sent = IF found = {} THEN NoSent
                                 ELSE Push(NoSent, sessions["default"],
                                           "workflowStatus")]
    /\ UNCHANGED <<now, live, memConfig, stConfig, stHealth, alarm, sessions,
                   broken, op, registry, wfs, wfCount, lastSet, regVars, gone,
                   creds, dwf, ext>>

\* broadcastStatus, lines 42-54, called at lines 57, 87 and 165
Announce(id) ==
    /\ id \in DOMAIN dwf
    /\ dwf[id].state = "running" /\ dwf[id].pc \in {1, 3, 5}
    /\ live["default"]
    /\ dwf' = [dwf EXCEPT ![id].events =
                    Append(@, Event(id, dwf[id], TextAt(dwf[id].pc), FALSE,
                                    FALSE, FALSE)),
                          ![id].pc = @ + 1]
    /\ hist' = BroadcastStatus
    /\ UNCHANGED <<now, live, memConfig, stConfig, stHealth, alarm, sessions,
                   broken, op, registry, wfs, wfCount, lastSet, regVars, gone,
                   creds, active, ext>>

\* step.do on a step whose result the engine holds
Recall(id) ==
    /\ id \in DOMAIN dwf
    /\ dwf[id].state = "running" /\ Recorded(dwf[id], dwf[id].pc)
    /\ dwf' = [dwf EXCEPT ![id].pc = @ + 1]
    /\ hist' = NoHist
    /\ UNCHANGED <<now, live, memConfig, stConfig, stHealth, alarm, sessions,
                   broken, op, registry, wfs, wfCount, lastSet, regVars, gone,
                   creds, active, ext>>

\* a rule of the platform's snippet rules: the snippet it runs and its
\* description (the load balancer's name for a rule written by update-rules)
Rule(q, d) == [snippet_name |-> q, description |-> d]

\* UpdatedRules without the filter on the existing rules
UpdatedRulesAppended(rules, q, n) == Append(rules, Rule(q, n))

\* update-rules, lines 206-218: the list put back, from the list fetched, for
\* the load balancer n whose sanitized name is q
UpdatedRules(rules, q, n) ==
    Append(SelectSeq(rules, LAMBDA r : r.snippet_name # q), Rule(q, n))

\* another client of the platform adds a rule for snippet q to the zone
PlatformRule(q) ==
    /\ Len(ext.rules) < MaxRules
    /\ ext' = [ext EXCEPT !.rules = Append(@, Rule(q, "other"))]
    /\ hist' = NoHist
    /\ UNCHANGED <<now, live, memConfig, stConfig, stHealth, alarm, sessions,
                   broken, op, registry, wfs, wfCount, lastSet, regVars, gone,
                   creds, dwf, active>>

\* AfterAttempt with the error of the step swallowed
AfterAttemptAlways(pc, threw) == pc + 1

\* `await step.do(...)`, lines 58, 88, 166: run goes on to its next statement
\* only when the function of the step has returned
AfterAttempt(pc, threw) == IF threw THEN pc ELSE pc + 1

\* one attempt of the function of the step at pc: check-snippet-exists,
\* lines 67-80 (out "no" for a 404 answer, "yes" for another answer),
\* deploy-snippet, lines 97-157, update-rules, lines 175-247 (out "yes" when
\* the platform accepts the request); out "throw" when the function throws
Attempt(id, out) ==
    /\ id \in DOMAIN dwf
    /\ LET w == dwf[id]
           sname == Sanitize(Spelling(w.name))
       IN  /\ w.state = "running" /\ w.pc \in {2, 4, 6}
           /\ ~Recorded(w, w.pc)
           /\ w.tries <= RetriesOf(w.pc)
           /\ out = "no" => w.pc = 2 /\ sname \notin ext.snippets
           /\ IF out = "throw"
              THEN /\ dwf' = [dwf EXCEPT
                        ![id].pc = AfterAttempt(@, TRUE),
                        ![id].tries = @ + 1,
                        ![id].method = IF w.pc = 4
                                       THEN IF w.exists = "yes" THEN "PUT"
                                            ELSE "POST"
                                       ELSE @]
                   /\ UNCHANGED ext
              ELSE /\ dwf' = [dwf EXCEPT
                        ![id].pc = AfterAttempt(@, FALSE),
                        ![id].tries = 0,
                        ![id].exists = IF w.pc = 2 THEN out ELSE @,
                        ![id].answers = IF w.pc = 2 THEN @ + 1 ELSE @,
                        ![id].deployed = (w.pc = 4) \/ @,
                        ![id].method = IF w.pc = 4
                                       THEN IF w.exists = "yes" THEN "PUT"
                                            ELSE "POST"
                                       ELSE @,
                        ![id].ruled = (w.pc = 6) \/ @,
                        ![id].fetched = IF w.pc = 6 THEN ext.rules ELSE @]
                   /\ ext' = CASE w.pc = 4 ->
                                    [ext EXCEPT !.snippets = @ \cup {sname}]
                               [] w.pc = 6 ->
                                    [ext EXCEPT !.rules =
                                        UpdatedRules(@, sname, w.name)]
                               [] OTHER -> ext
    /\ hist' = IF out # "throw" /\ dwf[id].pc = 6
               THEN [NoHist EXCEPT !.kind = "rulesUpdate",
                                   !.name = dwf[id].name,
                                   !.was = [NoWas EXCEPT !.ext = ext]]
               ELSE NoHist
    /\ UNCHANGED <<now, live, memConfig, stConfig, stHealth, alarm, sessions,
                   broken, op, registry, wfs, wfCount, lastSet, regVars, gone,
                   creds, active>>

\* PutBack on the rules the platform holds when the PUT arrives
PutBackOnCurrent(fetched, current, q, n) == UpdatedRules(current, q, n)

\* update-rules, lines 206-232: the list the PUT carries is built from
\* existingRules, the list the GET of lines 189-204 returned
PutBack(fetched, current, q, n) == UpdatedRules(fetched, q, n)

\* update-rules, lines 175-204: the function of the step runs up to the answer
\* of its GET of the zone's snippet rules
FetchRules(id) ==
    /\ id \in DOMAIN dwf
    /\ LET w == dwf[id]
       IN  /\ w.state = "running" /\ w.pc = 6
           /\ ~Recorded(w, w.pc) /\ ~w.got
           /\ w.tries <= RetriesOf(w.pc)
           /\ dwf' = [dwf EXCEPT ![id].got = TRUE, ![id].fetched = ext.rules]
    /\ hist' = NoHist
    /\ UNCHANGED <<now, live, memConfig, stConfig, stHealth, alarm, sessions,
                   broken, op, registry, wfs, wfCount, lastSet, regVars, gone,
                   creds, active, ext>>

\* update-rules, lines 206-247: the rest of the function, whose PUT the
\* platform accepts, and the return of step.do
PutRules(id) ==
    /\ id \in DOMAIN dwf
    /\ LET w == dwf[id]
           sname == Sanitize(Spelling(w.name))
       IN  /\ w.state = "running" /\ w.pc = 6 /\ w.got
           /\ dwf' = [dwf EXCEPT ![id].pc = AfterAttempt(@, FALSE),
                                 ![id].tries = 0, ![id].ruled = TRUE,
                                 ![id].got = FALSE]
           /\ ext' = [ext EXCEPT !.rules =
                        PutBack(w.fetched, @, sname, w.name)]
           /\ hist' = [NoHist EXCEPT
                        !.kind = "rulesUpdate", !.name = w.name,
                        !.was = [NoWas EXCEPT
                                    !.ext = [ext EXCEPT !.rules = w.fetched]]]
    /\ UNCHANGED <<now, live, memConfig, stConfig, stHealth, alarm, sessions,
                   broken, op, registry, wfs, wfCount, lastSet, regVars, gone,
                   creds, active>>

\* the step at pc has thrown on its last retry: step.do throws, the catch of
\* lines 270-293 runs and run throws
Fail(id, posted) ==
    /\ id \in DOMAIN dwf
    /\ LET w == dwf[id]
       IN  /\ w.state = "running" /\ w.pc \in {2, 4, 6}
           /\ ~Recorded(w, w.pc)
           /\ w.tries > RetriesOf(w.pc)
           /\ posted => live["default"]
           /\ dwf' = [dwf EXCEPT
                        ![id].state = "failed",
                        ![id].failedAt = StepAt(w.pc),
                        ![id].events = @ \o FailureEvents(id, w, posted)]
    /\ hist' = IF posted THEN BroadcastStatus ELSE NoHist
    /\ UNCHANGED <<now, live, memConfig, stConfig, stHealth, alarm, sessions,
                   broken, op, registry, wfs, wfCount, lastSet, regVars, gone,
                   creds, active, ext>>

\* the restarts of all the instances of table t
RECURSIVE Crashes(_)
Crashes(t) ==
    IF DOMAIN t = {} THEN 0
    ELSE LET i == CHOOSE i \in DOMAIN t : TRUE
         IN  t[i].crashes + Crashes(DropKey(t, i))

\* the engine loses the running instance and starts run again from its top,
\* with the step results it has recorded
Crash(id) ==
    /\ id \in DOMAIN dwf
    /\ dwf[id].state = "running" /\ Crashes(dwf) < MaxCrashes
    /\ dwf' = [dwf EXCEPT ![id].pc = 1, ![id].tries = 0, ![id].got = FALSE,
                          ![id].crashes = @ + 1,
                          ![id].crashedAt = dwf[id].pc]
    /\ hist' = NoHist
    /\ UNCHANGED <<now, live, memConfig, stConfig, stHealth, alarm, sessions,
                   broken, op, registry, wfs, wfCount, lastSet, regVars, gone,
                   creds, active, ext>>

\* the broadcast of completion, lines 254-264, and the return
Complete(id) ==
    /\ id \in DOMAIN dwf
    /\ dwf[id].state = "running" /\ dwf[id].pc = 7
    /\ live["default"]
    /\ dwf' = [dwf EXCEPT
                ![id].events = Append(@, Event(id, dwf[id],
                                               "Deployment complete", TRUE,
                                               TRUE, FALSE)),
                ![id].state = "done"]
    /\ hist' = BroadcastStatus
    /\ UNCHANGED <<now, live, memConfig, stConfig, stHealth, alarm, sessions,
                   broken, op, registry, wfs, wfCount, lastSet, regVars, gone,
                   creds, active, ext>>

----------------------------------------------------------------------------
(* One actor between two deletions, its alarm and the workflows it spawns;  *)
(* the registry answers                                                     *)

Next ==
    \/ Tick
    \/ \E a \in Actors : Construct(a)
    \/ \E a \in Actors : Evict(a)
    \/ \E a \in Actors, c \in Configs : SetConfig(a, c, TRUE)
    \/ \E a \in Actors : GetConfig(a)
    \/ \E a \in Actors : AlarmFire(a)
    \/ \E a \in Actors : Spawn(a)
    \/ \E a \in Actors : Finish(a, TRUE)
    \/ \E id \in 1..MaxWorkflows, st \in Statuses \cup {ConnectionFailed} :
            MonitorRun(id, st)
    \/ \E failing \in SUBSET Names : List(failing)

Spec == Init /\ [][Next]_vars

(* The same with deletions of the actor's state *)

NextDeleted ==
    \/ Next
    \/ \E a \in Actors : Delete(a)

SpecDeleted == Init /\ [][NextDeleted]_vars

(* One actor and its observers at one instant; the registry may fail *)

NextObserved ==
    \/ \E a \in Actors : Construct(a)
    \/ \E a \in Actors : Evict(a)
    \/ \E a \in Actors, s \in SessionIds : Attach(a, s)
    \/ \E a \in Actors, s \in SessionIds : Close(a, s)
    \/ \E a \in Actors, s \in SessionIds : Break(a, s)
    \/ \E a \in Actors, c \in Configs, ok \in BOOLEAN : SetConfig(a, c, ok)
    \/ \E a \in Actors : Spawn(a)
    \/ \E a \in Actors, ok \in BOOLEAN : Finish(a, ok)
    \/ \E a \in Actors : Delete(a)
    \/ \E id \in 1..MaxWorkflows, st \in Statuses \cup {ConnectionFailed} :
            MonitorRun(id, st)

SpecObserved == Init /\ [][NextObserved]_vars

(* One actor whose call of the registry returns or throws *)

NextRegistering ==
    \/ Tick
    \/ \E a \in Actors : Construct(a)
    \/ \E a \in Actors : Evict(a)
    \/ \E a \in Actors, c \in Configs, ok \in BOOLEAN : SetConfig(a, c, ok)
    \/ \E a \in Actors : AlarmFire(a)
    \/ \E a \in Actors : Spawn(a)
    \/ \E a \in Actors, ok \in BOOLEAN : Finish(a, ok)

SpecRegistering == Init /\ [][NextRegistering]_vars

(* The registry and the actors as the worker routes requests to them        *)
(* (src/src/index.ts): a client's register goes to the actor 'default', a   *)
(* delete goes to the registry, which calls the actor addressed by the load *)
(* balancer's name; the registry replays its map when it is constructed     *)

RegistryConfigs ==
    {c \in ConfigsOf("lb1") : Len(c.hosts) = 1}
        \cup {c \in ConfigsOf("lb2") : Len(c.hosts) = 0}

NextRegistry ==
    \/ \E a \in Instances : Construct(a)
    \/ \E c \in RegistryConfigs : SetConfig("default", c, TRUE)
    \/ \E a \in Names : Spawn(a)
    \/ \E a \in Names : Finish(a, TRUE)
    \/ RegConstruct
    \/ RegEvict
    \/ \E threw \in BOOLEAN : ReplayCall(threw)
    \/ \E n \in Names : Replayed(n, TRUE)
    \/ \E n \in Names : RegDelete(n)
    \/ RegDeleteActor
    \/ RegDeletePut
    \/ \E ok \in BOOLEAN : RegDeleteEnd(ok)

SpecRegistry == Init /\ [][NextRegistry]_vars

(* One load balancer as the worker routes its requests: the actor 'default' *)
(* holds its config and timer, the actor addressed by its name receives the *)
(* health updates and the delete                                            *)

RoutedActors == {"default", "lb1"}

RoutedConfigs == {c \in ConfigsOf("lb1") : Len(c.hosts) = 1}

NextRouted ==
    \/ Tick
    \/ \E a \in RoutedActors : Construct(a)
    \/ \E c \in RoutedConfigs : SetConfig("default", c, TRUE)
    \/ \E a \in RoutedActors : AlarmFire(a)
    \/ \E a \in RoutedActors : Spawn(a)
    \/ \E a \in RoutedActors : Finish(a, TRUE)
    \/ \E id \in 1..MaxWorkflows, st \in Statuses : MonitorRun(id, st)
    \/ RegConstruct
    \/ RegDelete("lb1")
    \/ RegDeleteActor
    \/ RegDeletePut
    \/ RegDeleteEnd(TRUE)

SpecRouted == Init /\ [][NextRouted]_vars

(* Deployments of the registered load balancers, one after the other *)

NextDeploy ==
    \/ \E c \in Credentials : SetSecret(c)
    \/ \E a \in RoutedActors : Construct(a)
    \/ \E c \in RoutedConfigs : SetConfig("default", c, TRUE)
    \/ \E n \in Names, listed, created \in BOOLEAN :
            /\ \A i \in DOMAIN dwf : dwf[i].state # "running"
            /\ created => Cardinality(DOMAIN dwf) < MaxDeployments
            /\ Deploy(n, listed, created)
    \/ \E id \in 1..MaxDeployments : Announce(id)
    \/ \E id \in 1..MaxDeployments : Recall(id)
    \/ \E id \in 1..MaxDeployments, out \in {"yes", "no", "throw"} :
            Attempt(id, out)
    \/ \E id \in 1..MaxDeployments, posted \in BOOLEAN : Fail(id, posted)
    \/ \E id \in 1..MaxDeployments : Crash(id)
    \/ \E id \in 1..MaxDeployments : Complete(id)

SpecDeploy == Init /\ [][NextDeploy]_vars

(* Deployments that succeed, one after the other, on a zone where other     *)
(* clients of the platform have written rules before                        *)

OtherSnippets == {<<"x">>, Sanitize(Spelling("lb1"))}

NextRules ==
    \/ \E c \in Credentials : SetSecret(c)
    \/ \E a \in RoutedActors : Construct(a)
    \/ \E c \in RoutedConfigs : SetConfig("default", c, TRUE)
    \/ \E q \in OtherSnippets : dwf = EmptyTable /\ PlatformRule(q)
    \/ \E n \in Names, listed, created \in BOOLEAN :
            /\ \A i \in DOMAIN dwf : dwf[i].state # "running"
            /\ created => Cardinality(DOMAIN dwf) < MaxDeployments
            /\ Deploy(n, listed, created)
    \/ \E id \in 1..MaxDeployments : Announce(id)
    \/ \E id \in 1..MaxDeployments, out \in {"yes", "no"} : Attempt(id, out)
    \/ \E id \in 1..MaxDeployments : Complete(id)

SpecRules == Init /\ [][NextRules]_vars

(* Deployments that succeed, one after the other, of load balancers whose   *)
(* names differ in the case of their letters                                *)

NamedAlike == {"lb1"} \cup Aliases

NamedConfigs == {c \in UNION {ConfigsOf(n) : n \in NamedAlike} :
                    Len(c.hosts) = 0}

NextNamed ==
    \/ \E c \in Credentials : SetSecret(c)
    \/ \E a \in NamedAlike \cup {"default"} : Construct(a)
    \/ \E c \in NamedConfigs : SetConfig("default", c, TRUE)
    \/ \E n \in NamedAlike :
            /\ \A i \in DOMAIN dwf : dwf[i].state # "running"
            /\ Cardinality(DOMAIN dwf) < MaxNamed
            /\ Deploy(n, TRUE, TRUE)
    \/ \E id \in DOMAIN dwf : Announce(id)
    \/ \E id \in DOMAIN dwf, out \in {"yes", "no"} : Attempt(id, out)
    \/ \E id \in DOMAIN dwf : Complete(id)

SpecNamed == Init /\ [][NextNamed]_vars

(* Deployments of two registered load balancers that run at the same time   *)
(* and succeed; the function of update-rules runs in its two pieces         *)

RacingConfigs == {c \in ConfigsOf("lb1") \cup ConfigsOf("lb2") :
                    Len(c.hosts) = 0}

NextRacing ==
    \/ \E c \in Credentials : SetSecret(c)
    \/ \E a \in Instances : Construct(a)
    \/ \E c \in RacingConfigs : SetConfig("default", c, TRUE)
    \/ \E n \in Names :
            /\ Cardinality(DOMAIN dwf) < MaxRacing
            /\ Deploy(n, TRUE, TRUE)
    \/ \E id \in 1..MaxRacing : Announce(id)
    \/ \E id \in DOMAIN dwf, out \in {"yes", "no"} :
            dwf[id].pc # 6 /\ Attempt(id, out)
    \/ \E id \in 1..MaxRacing : FetchRules(id)
    \/ \E id \in 1..MaxRacing : PutRules(id)
    \/ \E id \in 1..MaxRacing : Complete(id)

SpecRacing == Init /\ [][NextRacing]_vars

(* Deployments of one load balancer that run at the same time, and the      *)
(* polls of their status                                                    *)

StepLabels == {"", "Deploying snippet..."}

NextTracked ==
    \/ \E c \in Credentials : SetSecret(c)
    \/ \E a \in RoutedActors : Construct(a)
    \/ \E c \in RoutedConfigs : SetConfig("default", c, TRUE)
    \/ \E n \in Names :
            /\ Cardinality(DOMAIN dwf) < MaxTracked
            /\ Deploy(n, TRUE, TRUE)
    \/ \E id \in DOMAIN dwf, completed \in BOOLEAN, step \in StepLabels :
            /\ completed => step = ""
            /\ WorkflowStatus(id, completed, step)
    \/ \E id \in DOMAIN dwf : Announce(id)
    \/ \E id \in DOMAIN dwf, out \in {"yes", "no"} : Attempt(id, out)
    \/ \E id \in DOMAIN dwf : Complete(id)

SpecTracked == Init /\ [][NextTracked]_vars

(* Deployments that succeed, one after the other, the polls of their status *)
(* and the observers of the actor 'default'                                 *)

NextPolled ==
    \/ \E c \in Credentials : SetSecret(c)
    \/ \E a \in RoutedActors : Construct(a)
    \/ \E c \in RoutedConfigs : SetConfig("default", c, TRUE)
    \/ \E s \in SessionIds : Attach("default", s)
    \/ \E s \in SessionIds : Close("default", s)
    \/ \E s \in SessionIds : Break("default", s)
    \/ \E n \in Names :
            /\ \A i \in DOMAIN dwf : dwf[i].state # "running"
            /\ Cardinality(DOMAIN dwf) < MaxDeployments
            /\ Deploy(n, TRUE, TRUE)
    \/ \E id \in DOMAIN dwf, completed \in BOOLEAN, step \in StepLabels :
            /\ completed => step = ""
            /\ WorkflowStatus(id, completed, step)
    \/ \E id \in DOMAIN dwf : Announce(id)
    \/ \E id \in DOMAIN dwf, out \in {"yes", "no"} : Attempt(id, out)
    \/ \E id \in DOMAIN dwf : Complete(id)

SpecPolled == Init /\ [][NextPolled]_vars

(* Deployments one after the other, with observers attached to the actor    *)
(* 'default'                                                                *)

NextWatched ==
    \/ NextDeploy
    \/ \E s \in SessionIds : Attach("default", s)
    \/ \E s \in SessionIds : Close("default", s)
    \/ \E s \in SessionIds : Break("default", s)

SpecWatched == Init /\ [][NextWatched]_vars

----------------------------------------------------------------------------
(* Properties *)

Armed(al) == ~AlarmMissing(al)

\* the records of table t filed under cfg's name for one of cfg's hosts
KeptOf(t, cfg) ==
    [k \in {x \in DOMAIN t : x[1] = cfg.name /\ x[2] \in Range(cfg.hosts)}
        |-> t[k]]

Count(log, type) == Cardinality({i \in DOMAIN log : log[i] = type})

\* C1: the health table of an actor holds a record only for hosts of the
\* actor's current config (a health update for another host is ignored).
C1_RecordsOnlyForConfiguredHosts ==
    \A a \in Actors : \A k \in DOMAIN stHealth[a] :
        stConfig[a] # NoConfig /\ k[2] \in Range(stConfig[a].hosts)

\* C2 as claimed: the health table that setConfig(c) leaves holds exactly the
\* records of the prior table T whose host is in c.hosts, each unchanged, and
\* no other record.
C2_SetConfigLeavesPrunedTable ==
    hist.kind = "setConfig"
        => stHealth[hist.actor] = KeptOf(hist.from, hist.cfg)

\* C2 as amended: the table setConfig(c) writes at its prune step holds exactly
\* the records of T whose host is in c.hosts, each unchanged, and it is the
\* table setConfig leaves when a timer was armed or c has no hosts.  Otherwise
\* setConfig runs a round of spawns and writes a second table: the pruned one
\* where each host of c whose spawn returned has a record with the new
\* workflow id, isHealthy and lastChecked as in T (false for a host T lacks),
\* and still no record for a host outside c.hosts.
C2_SetConfigPrunesThenSpawns ==
    LET a == hist.actor
        kept == KeptOf(hist.from, hist.cfg)
    IN  /\ hist.kind = "pruned" \/ (hist.kind = "setConfig" /\ ~hist.looped)
            => stHealth[a] = kept
        /\ hist.kind = "setConfig" /\ hist.looped
            => LET t == stHealth[a]
               IN  /\ \A k \in DOMAIN t :
                        k[1] = hist.cfg.name /\ k[2] \in Range(hist.cfg.hosts)
                   /\ \A k \in DOMAIN kept :
                        /\ k \in DOMAIN t
                        /\ t[k].isHealthy = kept[k].isHealthy
                        /\ t[k].lastChecked = kept[k].lastChecked
                   /\ \A k \in DOMAIN t \ DOMAIN kept :
                        ~t[k].isHealthy /\ t[k].workflowId # NoWorkflow
                   /\ Cardinality({k \in DOMAIN t :
                            \/ k \notin DOMAIN kept
                            \/ t[k].workflowId # kept[k].workflowId})
                        = hist.spawned

\* C2 witness: a setConfig has dropped the record of a removed host and kept
\* the record of a remaining one.
C2_Witness ==
    /\ hist.kind = "setConfig" /\ ~hist.looped
    /\ \E k \in DOMAIN hist.from : k[2] \notin Range(hist.cfg.hosts)
    /\ \E k \in DOMAIN hist.from : k \in DOMAIN stHealth[hist.actor]

\* C3: in onTimerFire the next timer is armed before the first workflow is
\* spawned and is still armed when the handler ends, whichever spawns throw,
\* and every host's spawn is attempted whichever spawns throw.
C3_ArmedBeforeSpawnAllHostsTried ==
    \A a \in Actors :
        /\ ~Idle(a) => Armed(alarm[a]) /\ alarm[a] = op[a].armed1
        /\ ~Idle(a) => op[a].spawned + op[a].failed = op[a].i - 1
        /\ hist.actor = a /\ hist.looped
            => /\ Armed(alarm[a])
               /\ alarm[a] = hist.armed1
               /\ hist.spawned + hist.failed = Len(hist.cfg.hosts)

\* C3 witness: an onTimerFire over two hosts has ended whose first spawn threw
\* and whose second spawn returned the latest workflow.
C3_Witness ==
    /\ hist.kind = "alarm" /\ hist.looped
    /\ hist.failed = 1 /\ hist.spawned = 1
    /\ Len(hist.cfg.hosts) = 2
    /\ Has(stHealth[hist.actor], hist.cfg.name, hist.cfg.hosts[2])
    /\ stHealth[hist.actor][<<hist.cfg.name, hist.cfg.hosts[2]>>].workflowId
            = wfCount
    /\ Armed(alarm[hist.actor])

\* C4: an actor that has received a config and was not deleted has a timer
\* armed whenever no operation is in progress, whatever the host list is.
C4_TimerArmedWhenIdle ==
    \A a \in Actors :
        lastSet[a] # NoConfig /\ Idle(a) => Armed(alarm[a])

\* C5: the wake-up time that onTimerFire arms at time t is t + probeInterval
\* of the durably stored config, also after a restart.
C5_ArmsNowPlusStoredInterval ==
    \A a \in Actors :
        op[a].kind = "alarm"
            => /\ op[a].armed1 = op[a].at + op[a].cfg.probeInterval * MsPerSecond
               /\ op[a].armed1 > op[a].at

\* C6: setConfig arms a timer for now + probeInterval when and only when none
\* is armed: afterwards a timer is armed, and one that was armed keeps its time.
C6_SetConfigArmsOnlyWhenUnarmed ==
    hist.kind = "setConfig"
        => IF Armed(hist.armed0)
           THEN alarm[hist.actor] = hist.armed0
           ELSE alarm[hist.actor]
                    = hist.at + hist.cfg.probeInterval * MsPerSecond

\* C7: registering config c twice in a row leaves the health table that
\* registering it once left.
C7_RegisterTwiceSameTable ==
    hist.kind = "setConfig" /\ hist.twice
        => stHealth[hist.actor] = hist.from

\* C7 witness: the same config was registered twice in a row on an actor whose
\* table holds a record with a workflow id.
C7_Witness ==
    /\ hist.kind = "setConfig" /\ hist.twice
    /\ \E k \in DOMAIN stHealth[hist.actor] :
            stHealth[hist.actor][k].workflowId # NoWorkflow

\* C8: one register call pushes to each attached live session exactly one
\* configUpdate and exactly one healthStatusUpdate.
C8_OneMessageOfEachType ==
    hist.kind = "setConfig"
        => \A s \in Range(sessions[hist.actor]) \ broken :
                /\ Count(hist.sent[s], "configUpdate") = 1
                /\ Count(hist.sent[s], "healthStatusUpdate") = 1

\* C9: getConfig returns the config of the latest setConfig, unchanged, until
\* the next setConfig or deleteAll, also across a restart of the actor.
C9_GetConfigReturnsLastSet ==
    hist.kind = "getConfig" /\ lastSet[hist.actor] # NoConfig
        => hist.body = lastSet[hist.actor]

C12_ListSurvivesFailingActor ==
    hist.kind = "list"
        => /\ hist.ok
           /\ \A n \in DOMAIN registry \ hist.failing : n \in DOMAIN hist.list

\* C13: after delete(name) returns success, name is not in the Registry Map
\* nor in the list, every other name that was registered when the entry was
\* removed is still there with its config unchanged, and the array broadcast
\* to the default actor is the registry content after the removal.
C13_DeleteRemovesOnlyName ==
    hist.kind = "regDelete" /\ hist.ok
        => /\ hist.name \notin DOMAIN hist.array
           /\ \A m \in DOMAIN hist.before \ {hist.name} :
                /\ m \in DOMAIN hist.array
                /\ hist.array[m] = hist.before[m]
                /\ m \in DOMAIN registry
           /\ DOMAIN hist.array \subseteq DOMAIN hist.before

\* C14: after a load balancer is deleted, no new Monitor Workflow is spawned
\* for it by a timer fire or getConfig that starts later, until a new
\* setConfig for that name.
C14_NoSpawnAfterDelete ==
    \A a \in Instances : ~(op[a].late /\ op[a].spawned > 0)

\* C15: a health update that a Monitor Workflow delivers to the actor after
\* deleteAll is a no-op: the actor's health table stays empty.
C15_UpdateAfterDeleteIsNoOp ==
    hist.kind = "healthUpdate" /\ lastSet[hist.actor] = NoConfig
        => stHealth[hist.actor] = EmptyTable

\* C16: after a cold start of the registry every stored config is replayed
\* into the actor addressed by its name, so that the actor holds the config
\* and has a timer armed; a replay that throws does not stop the loop.
C16_ReplayedActorHoldsConfigAndTimer ==
    /\ hist.kind = "setConfig" /\ hist.actor \in Names
        => /\ stConfig[hist.actor] = hist.cfg
           /\ Armed(alarm[hist.actor])
    /\ hist.kind = "replayThrew"
        => replay.left = SelectSeq(replay.left,
                                   LAMBDA n : n \in DOMAIN hist.before)
           /\ replay.await = ""

\* C17: the first message a session receives on attach is initialHealthStatus
\* and it carries the actor's health table as of the attach.
C17_AttachSendsCurrentTable ==
    hist.kind = "attach"
        => /\ \E s \in SessionIds :
                /\ s \in Range(sessions[hist.actor])
                /\ hist.sent[s] = <<"initialHealthStatus">>
           /\ hist.payload = hist.from

\* C18: when a step of a Deployment Workflow exhausts its retries, the
\* workflow pushes one terminal failure event (completed, not success) that
\* carries the workflow id, the load-balancer name, the name of the failed
\* step as currentStep and the error, and ends as failed.
C18_TerminalFailureNamesStep ==
    \A id \in DOMAIN dwf :
        dwf[id].state = "failed"
            => LET ev == dwf[id].events
               IN  /\ ev # <<>>
                   /\ ev[Len(ev)] = Event(id, dwf[id], dwf[id].failedAt,
                                          TRUE, FALSE, TRUE)
                   /\ Cardinality({i \in DOMAIN ev : ev[i].completed}) = 1

\* C19: a step whose result is recorded is never executed again: the platform
\* answers at most one exists call of a workflow, also when the workflow
\* crashed after the check and resumed, and deploy-snippet uses the recorded
\* boolean (PUT when the snippet exists, POST when not).
C19_RecordedStepNotRerun ==
    \A id \in DOMAIN dwf :
        LET w == dwf[id]
        IN  /\ w.answers <= 1
            /\ w.answers = 1 <=> w.exists # "none"
            /\ w.method # "" => /\ w.exists # "none"
                                /\ w.method = "PUT" <=> w.exists = "yes"
            /\ w.deployed => w.exists # "none"

\* C19 witness: a workflow that crashed between the end of the check and the
\* end of deploy-snippet has resumed and deployed with POST after the one
\* exists call that answered 404.
C19_Witness ==
    \E id \in DOMAIN dwf :
        /\ dwf[id].crashedAt \in {3, 4}
        /\ dwf[id].deployed /\ dwf[id].method = "POST"
        /\ dwf[id].exists = "no" /\ dwf[id].answers = 1

\* C20: a deployment request made while a platform credential is missing
\* returns a failure, creates no Deployment Workflow, adds no entry to the
\* active-workflow table and makes no call to the external platform.
C20_NoDeployWithoutCredentials ==
    hist.kind = "deploy" /\ creds # Credentials
        => /\ ~hist.ok
           /\ dwf = hist.was.dwf
           /\ active = hist.was.active
           /\ ext = hist.was.ext

\* C20 witness: a deployment of a registered load balancer was requested with
\* two of the three credentials present.
C20_Witness ==
    /\ hist.kind = "deploy" /\ hist.was.found
    /\ Cardinality(creds) = 2
    /\ ~hist.ok /\ dwf = EmptyTable

\* C21: after a register call for name n with config c returns success, the
\* Registry Map entry for n and the config held by the actor addressed by n
\* are both c; and whenever no register or delete is in progress the two agree
\* for every registered name.
C21_RegistryAndActorAgree ==
    /\ hist.kind = "setConfig" /\ hist.ok
        => /\ hist.cfg.name \in DOMAIN registry
           /\ registry[hist.cfg.name] = hist.cfg
           /\ stConfig[hist.cfg.name] = hist.cfg
    /\ (\A a \in Instances : Idle(a)) /\ regOp = IdleReg /\ replay.left = <<>>
        => \A n \in DOMAIN registry : stConfig[n] = registry[n]

\* C22 as claimed: one onTimerFire on an actor whose config has k hosts spawns
\* exactly k Monitor Workflows, one per entry of config.hosts, each with the
\* load-balancer name, that host and the config's probePath, and records the
\* returned workflow id in that host's health record.
C22_SpawnsOnePerHost ==
    hist.kind = "alarm" /\ hist.looped
        => LET c == hist.cfg
               t == stHealth[hist.actor]
           IN  /\ Len(hist.made) = Len(c.hosts)
               /\ \A i \in DOMAIN hist.made :
                    /\ hist.made[i].name = c.name
                    /\ hist.made[i].host = c.hosts[i]
                    /\ hist.made[i].path = c.probePath
                    /\ Has(t, c.name, c.hosts[i])
                    /\ t[<<c.name, c.hosts[i]>>].workflowId = hist.made[i].id

\* C22 as amended: one onTimerFire on an actor whose config has k hosts calls
\* create() once per entry of config.hosts, in order; the calls that return
\* spawn one Monitor Workflow each (exactly k when none throws), with the
\* load-balancer name, that host and the config's probePath, under ids that are
\* pairwise different, and the returned id is recorded in that host's health
\* record; a host whose create() throws gets no workflow and keeps the record
\* it had.
C22_SpawnsOnePerHostCreated ==
    hist.kind = "alarm" /\ hist.looped
        => LET c == hist.cfg
               t == stHealth[hist.actor]
               m == hist.made
               served == {m[i].host : i \in DOMAIN m}
           IN  /\ Len(m) = hist.spawned
               /\ hist.spawned + hist.failed = Len(c.hosts)
               /\ hist.failed = 0 => Len(m) = Len(c.hosts)
               /\ \A i \in DOMAIN m :
                    /\ m[i].name = c.name
                    /\ m[i].host \in Range(c.hosts)
                    /\ m[i].path = c.probePath
                    /\ Has(t, c.name, m[i].host)
                    /\ t[<<c.name, m[i].host>>].workflowId = m[i].id
               /\ \A i, j \in DOMAIN m :
                    i < j => /\ m[i].id # m[j].id
                             /\ \E x, y \in DOMAIN c.hosts :
                                    /\ x < y
                                    /\ c.hosts[x] = m[i].host
                                    /\ c.hosts[y] = m[j].host
               /\ \A h \in Range(c.hosts) \ served :
                    IF Has(hist.from, c.name, h)
                    THEN /\ Has(t, c.name, h)
                         /\ t[<<c.name, h>>].workflowId
                                = hist.from[<<c.name, h>>].workflowId
                    ELSE ~Has(t, c.name, h)

\* C22 witness: an onTimerFire over two hosts has ended with two workflows
\* spawned and both ids recorded.
C22_Witness ==
    /\ hist.kind = "alarm" /\ hist.looped
    /\ Len(hist.cfg.hosts) = 2 /\ Len(hist.made) = 2
    /\ stHealth[hist.actor][<<hist.cfg.name, hist.cfg.hosts[1]>>].workflowId
            = hist.made[1].id
    /\ stHealth[hist.actor][<<hist.cfg.name, hist.cfg.hosts[2]>>].workflowId
            = hist.made[2].id

\* C23: onTimerFire leaves the isHealthy and lastChecked values of every
\* existing health record unchanged: no step of the handler, its final write
\* of the table included, changes them or removes the record.
C23_TimerFireKeepsVerdicts ==
    [][\A a \in Actors :
        op[a].kind = "alarm"
            => \A k \in DOMAIN stHealth[a] :
                    \/ k \in DOMAIN stHealth'[a]
                        /\ stHealth'[a][k].isHealthy = stHealth[a][k].isHealthy
                        /\ stHealth'[a][k].lastChecked
                                = stHealth[a][k].lastChecked
                    \/ \E id \in DOMAIN wfs :
                        /\ id \notin DOMAIN wfs'
                        /\ k = <<wfs[id].name, wfs[id].host>>]_vars

\* C24: applyHealthUpdate for a host of the config writes the record
\* (ownName, host) with isHealthy as given, lastChecked = timestamp and
\* nextCheck = timestamp + probeInterval of the actor's current config, keeps
\* the record's workflow id, leaves every other record unchanged and
\* multicasts one healthStatusUpdate.
C24_UpdateWritesVerdictAndNextCheck ==
    hist.kind = "healthUpdate" /\ hist.host \in Range(hist.cfg.hosts)
        => LET a == hist.actor
               k == <<a, hist.host>>
               t == stHealth[a]
           IN  /\ k \in DOMAIN t
               /\ t[k].isHealthy = hist.healthy
               /\ t[k].lastChecked = hist.at
               /\ t[k].nextCheck
                    = hist.at + hist.cfg.probeInterval * MsPerSecond
               /\ k \in DOMAIN hist.from
                    => t[k].workflowId = hist.from[k].workflowId
               /\ DOMAIN t = DOMAIN hist.from \cup {k}
               /\ \A x \in DOMAIN t \ {k} : t[x] = hist.from[x]
               /\ \A s \in Range(sessions[a]) \ broken :
                    hist.sent[s] = <<"healthStatusUpdate">>

\* C25: getConfig on an actor with no timer armed arms a timer before it
\* returns, and getConfig on an actor with a timer armed leaves the timer and
\* the health table unchanged.
C25_GetConfigArmsOrLeavesAlone ==
    hist.kind = "getConfig"
        => LET a == hist.actor
           IN  /\ Armed(alarm[a])
               /\ Armed(hist.armed0)
                    => /\ alarm[a] = hist.armed0
                       /\ stHealth[a] = hist.from
                       /\ hist.spawned = 0 /\ hist.failed = 0
               /\ ~Armed(hist.armed0) => alarm[a] > hist.at

\* C25 witness: a getConfig that found no timer has returned with one armed.
C25_Witness ==
    /\ hist.kind = "getConfig"
    /\ ~Armed(hist.armed0)
    /\ Armed(alarm[hist.actor])

\* C26: after deleteAll returns, the actor has no timer armed, no stored
\* config and an empty health table, and getConfig does not return the deleted
\* config; this lasts until the next setConfig, whatever getConfig calls and
\* actor restarts happen in between.
C26_DeletedStaysDeleted ==
    \A a \in Actors :
        gone[a] # NotGone /\ lastSet[a] = NoConfig /\ Idle(a)
            => /\ ~Armed(alarm[a])
               /\ stConfig[a] = NoConfig
               /\ stHealth[a] = EmptyTable
               /\ hist.kind = "getConfig" /\ hist.actor = a
                    => hist.body \notin Configs

\* C27: for every multicast of every message type (healthStatusUpdate,
\* configUpdate, workflowStatus) a session whose send fails is removed from
\* the actor's session set, the send is not retried, the other sessions
\* receive the message, and the operation that triggered the multicast
\* completes without an error.
C27_FailedSendDropsSession ==
    (\/ hist.kind \in {"setConfig", "healthUpdate", "broadcastStatus"}
     \/ hist.kind = "deploy" /\ hist.ok)
        => LET a == hist.actor
           IN  /\ hist.ok
               /\ Range(sessions[a]) \cap broken = {}
               /\ \A s \in broken : hist.sent[s] = <<>>
               /\ \A s \in Range(sessions[a]) : hist.sent[s] # <<>>

\* C28: the probe step of the Monitor Workflow never raises: for a response
\* status s it returns isHealthy = (s < 400) and for a connection-level
\* failure isHealthy = false; so the probe function runs once and every
\* Monitor Workflow reaches the update-health-status step.
C28_ProbeNeverRaises ==
    /\ hist.kind # "probeFailed"
    /\ hist.kind = "healthUpdate"
        => /\ hist.probes = 1
           /\ IF hist.status = ConnectionFailed THEN ~hist.healthy
              ELSE hist.healthy <=> hist.status < HealthyBelow
           /\ Has(stHealth[hist.actor], hist.actor, hist.host)
           /\ stHealth[hist.actor][<<hist.actor, hist.host>>].isHealthy
                = hist.healthy

\* C28 witness: a Monitor Workflow whose fetch failed at the connection level
\* has delivered an unhealthy verdict over a healthy one after one run of the
\* probe.
C28_Witness ==
    /\ hist.kind = "healthUpdate"
    /\ hist.status = ConnectionFailed /\ hist.probes = 1
    /\ Has(hist.from, hist.actor, hist.host)
    /\ hist.from[<<hist.actor, hist.host>>].isHealthy
    /\ ~stHealth[hist.actor][<<hist.actor, hist.host>>].isHealthy

\* C29: the Deployment Workflow runs its steps only in the order
\* check-snippet-exists, deploy-snippet, update-rules; a step starts only
\* after the previous one succeeded, and once a step has exhausted its retries
\* no later step runs and no write of a later step reaches the platform.
C29_StepsInOrderStopAtFailure ==
    /\ [](\A id \in DOMAIN dwf :
            LET w == dwf[id]
            IN  /\ w.pc >= 3 => w.exists # "none"
                /\ w.pc >= 5 => w.deployed
                /\ w.pc >= 7 => w.ruled
                /\ w.deployed => w.exists # "none"
                /\ w.ruled => w.deployed
                /\ w.state = "failed"
                    => /\ w.failedAt = StepAt(w.pc)
                       /\ w.failedAt = "check-snippet-exists"
                            => w.exists = "none" /\ ~w.deployed /\ ~w.ruled
                       /\ w.failedAt = "deploy-snippet"
                            => ~w.deployed /\ ~w.ruled
                       /\ w.failedAt = "update-rules" => ~w.ruled)
    /\ [](/\ \A q \in ext.snippets :
                \E id \in DOMAIN dwf :
                    dwf[id].deployed /\ q = Sanitize(Spelling(dwf[id].name))
          /\ \A i \in DOMAIN ext.rules :
                \E id \in DOMAIN dwf :
                    /\ dwf[id].ruled
                    /\ ext.rules[i]
                        = Rule(Sanitize(Spelling(dwf[id].name)), dwf[id].name))
    /\ [][\A id \in DOMAIN dwf :
            dwf[id].state = "failed"
                => /\ dwf'[id] = dwf[id]
                   /\ ext' # ext
                        => \E o \in DOMAIN dwf :
                                o # id /\ dwf'[o] # dwf[o]]_vars

\* C29 witness: a workflow has failed at deploy-snippet after its check
\* succeeded, and the platform holds no snippet and no rule.
C29_Witness ==
    \E id \in DOMAIN dwf :
        /\ dwf[id].state = "failed"
        /\ dwf[id].failedAt = "deploy-snippet"
        /\ dwf[id].exists = "no"
        /\ dwf[id].tries = DeployRetries + 1
        /\ ext = NoExt

\* C30: the update-rules step writes back a rule list that holds every
\* previously existing rule whose snippet is another sanitized name, unchanged
\* and in order, plus exactly one rule for this load balancer's sanitized
\* name, placed last; so with deployments that do not overlap the rule list
\* never holds two rules for the sanitized name of a deployed load balancer.
C30_RulesKeepOthersOneOwnLast ==
    /\ hist.kind = "rulesUpdate"
        => LET old == hist.was.ext.rules
               new == ext.rules
               q == Sanitize(Spelling(hist.name))
               others == {i \in DOMAIN old : old[i].snippet_name # q}
           IN  /\ new # <<>>
               /\ new[Len(new)].snippet_name = q
               /\ Cardinality({i \in DOMAIN new : new[i].snippet_name = q}) = 1
               /\ Len(new) = Cardinality(others) + 1
               /\ \A i \in others :
                    \E j \in DOMAIN new :
                        /\ new[j] = old[i]
                        /\ \A i2 \in others :
                            i < i2 => \E j2 \in DOMAIN new :
                                        j < j2 /\ new[j2] = old[i2]
    /\ \A id \in DOMAIN dwf :
        dwf[id].ruled
            => Cardinality({i \in DOMAIN ext.rules :
                                ext.rules[i].snippet_name
                                    = Sanitize(Spelling(dwf[id].name))}) = 1

\* C30 witness: update-rules has run on a zone that held a rule for another
\* snippet followed by an older rule for this load balancer's snippet, and the
\* list is now the other rule followed by the new one.
C30_Witness ==
    /\ hist.kind = "rulesUpdate"
    /\ Len(hist.was.ext.rules) = 2
    /\ hist.was.ext.rules[1].snippet_name # Sanitize(Spelling(hist.name))
    /\ hist.was.ext.rules[2].snippet_name = Sanitize(Spelling(hist.name))
    /\ ext.rules = <<hist.was.ext.rules[1],
                     Rule(Sanitize(Spelling(hist.name)), hist.name)>>

\* the rule update-rules writes for load balancer n
RuleOf(n) == Rule(Sanitize(Spelling(n)), n)

\* C31: two Deployment Workflows for different load balancers whose
\* update-rules steps overlap can lose an update.  The rule of a load balancer
\* whose update-rules step has completed is missing from the external rule list
\* only when a workflow of another load balancer has put back a list it had
\* fetched without that rule; and right after a put, the rule of another load
\* balancer is in the list exactly when it was in the list the putting
\* workflow had fetched, whatever the platform held in between.  The witness is
\* the reachable state the claim names.
C31_RuleLostOnlyToOverlappingUpdate ==
    /\ \A i \in DOMAIN dwf :
        dwf[i].ruled
            => \/ RuleOf(dwf[i].name) \in Range(ext.rules)
               \/ \E j \in DOMAIN dwf :
                    /\ dwf[j].ruled
                    /\ dwf[j].name # dwf[i].name
                    /\ RuleOf(dwf[i].name) \notin Range(dwf[j].fetched)
    /\ hist.kind = "rulesUpdate"
        => \A i \in DOMAIN dwf :
            dwf[i].ruled /\ dwf[i].name # hist.name
                => (RuleOf(dwf[i].name) \in Range(ext.rules)
                        <=> RuleOf(dwf[i].name) \in Range(hist.was.ext.rules))

\* C31 witness: two workflows for different load balancers have both completed
\* successfully and the rule list holds the rule of only one of them.
C31_Witness ==
    \E i, j \in DOMAIN dwf :
        /\ dwf[i].name # dwf[j].name
        /\ dwf[i].state = "done" /\ dwf[j].state = "done"
        /\ RuleOf(dwf[j].name) \in Range(ext.rules)
        /\ RuleOf(dwf[i].name) \notin Range(ext.rules)

\* C32: the active-workflow table holds at most one entry per load-balancer
\* name, and the entry of a name tracks an instance deployed for that name;
\* tracking a newer deployment for a name that has an entry replaces the
\* entry, leaves the other entries alone and leaves the older instance as it
\* was (it is not cancelled); and a step update or terminal update leaves
\* unchanged every entry that tracks another id than the one it carries, so an
\* update carrying the older instance's id leaves the newer entry unchanged.
C32_NewerDeploymentReplacesEntry ==
    /\ \A n \in DOMAIN active :
        /\ active[n].workflowId \in DOMAIN dwf
        /\ dwf[active[n].workflowId].name = n
    /\ \A id \in DOMAIN dwf : Cardinality(Tracked(active, id)) <= 1
    /\ hist.kind = "deploy" /\ hist.ok /\ hist.name \in DOMAIN hist.was.active
        => LET old == hist.was.active[hist.name].workflowId
               new == Cardinality(DOMAIN dwf)
           IN  /\ new # old
               /\ active[hist.name] = [workflowId |-> new,
                                       currentStep |-> "Starting deployment"]
               /\ dwf[old] = hist.was.dwf[old]
               /\ \A m \in DOMAIN hist.was.active \ {hist.name} :
                    m \in DOMAIN active /\ active[m] = hist.was.active[m]
    /\ hist.kind = "workflowStatus"
        => \A n \in DOMAIN hist.was.active :
            hist.was.active[n].workflowId # hist.poll.id
                => n \in DOMAIN active /\ active[n] = hist.was.active[n]

\* C32 witness: a terminal update carrying the id of an older instance, which
\* is still running, has been handled while the entry of its load balancer
\* tracks a newer instance, and the entry is as it was.
C32_Witness ==
    /\ hist.kind = "workflowStatus" /\ hist.poll.completed
    /\ \E n \in DOMAIN active :
        /\ hist.poll.id < active[n].workflowId
        /\ dwf[hist.poll.id].name = n
        /\ dwf[hist.poll.id].state = "running"
        /\ dwf[hist.poll.id].pc > 1
        /\ active[n] = hist.was.active[n]

\* C33: a terminal update (completed = true) for the workflow id that an entry
\* of the table tracks removes that entry, leaves the rest of the table and
\* the instances alone and sends one workflowStatus message with completed =
\* true for that load balancer's name to every attached socket that takes it;
\* an update with completed = false changes only the entry's currentStep and
\* sends the entry with completed = false.
C33_StatusUpdateRemovesOrRelabels ==
    hist.kind = "workflowStatus" /\ Tracked(hist.was.active, hist.poll.id) # {}
        => LET before == hist.was.active
               n == hist.name
           IN  /\ Tracked(before, hist.poll.id) = {n}
               /\ dwf = hist.was.dwf
               /\ \A s \in SessionIds :
                    hist.sent[s] = IF s \in Range(sessions["default"]) \ broken
                                   THEN <<"workflowStatus">> ELSE <<>>
               /\ hist.event.loadBalancerName = n
               /\ hist.event.completed = hist.poll.completed
               /\ IF hist.poll.completed
                  THEN active = DropKey(before, n)
                  ELSE /\ active =
                            [before EXCEPT ![n].currentStep =
                                IF hist.poll.step = "" THEN "Processing"
                                ELSE hist.poll.step]
                       /\ hist.event =
                            [workflowId |-> hist.poll.id,
                             loadBalancerName |-> n,
                             currentStep |-> active[n].currentStep,
                             completed |-> FALSE, success |-> FALSE]

\* C33 witness: a terminal update for the tracked instance of lb1 has removed
\* lb1's entry, and the attached socket was sent the message with completed =
\* true for lb1.
C33_Witness ==
    /\ hist.kind = "workflowStatus" /\ hist.poll.completed
    /\ hist.name = "lb1" /\ "lb1" \in DOMAIN hist.was.active
    /\ "lb1" \notin DOMAIN active
    /\ hist.event.completed /\ hist.event.loadBalancerName = "lb1"
    /\ \E s \in Range(sessions["default"]) : hist.sent[s] = <<"workflowStatus">>

\* C34: when the call to the registry raises during a register request handled
\* by the Load-Balancer Actor, the request ends with a response, not with an
\* exception, and the response is a structured failure: success = false with
\* an error string.  (A call that returns gives success = true.)
C34_RegistryFailureIsCaught ==
    hist.kind = "setConfig"
        => /\ ~hist.resp.raised
           /\ IF hist.ok
              THEN hist.resp.success /\ hist.resp.error = ""
              ELSE ~hist.resp.success /\ hist.resp.error # ""

\* C34 witness: a register request that went through handleAlarm's loop has
\* ended with the failure response after the registry call threw; its config
\* is stored and is not in the registry.
C34_Witness ==
    /\ hist.kind = "setConfig" /\ ~hist.ok /\ hist.looped
    /\ hist.resp.status = 500 /\ ~hist.resp.success
    /\ stConfig[hist.actor] = hist.cfg
    /\ hist.cfg.name \notin DOMAIN registry

\* C35: no applied health result is lost to an interleaving inside one actor:
\* when onTimerFire finishes, every record that a health update wrote while
\* the handler was suspended at a create() call (a record that is not as the
\* handler found it at its start) is still in the health table with the
\* isHealthy and lastChecked values the update wrote.
C35_NoHealthResultLost ==
    [][\A a \in Actors :
        op[a].kind = "alarm" /\ op'[a].kind = "idle"
            => \A k \in DOMAIN stHealth[a] :
                (k \notin DOMAIN op[a].from \/ stHealth[a][k] # op[a].from[k])
                    => /\ k \in DOMAIN stHealth'[a]
                       /\ stHealth'[a][k].isHealthy = stHealth[a][k].isHealthy
                       /\ stHealth'[a][k].lastChecked
                            = stHealth[a][k].lastChecked]_vars

\* C36: no registration is lost to an interleaving inside the Registry Actor:
\* when the delete of n has finished, every other name m whose register
\* completed while the delete was suspended at its call of the actor (m's
\* entry in the stored map just before the delete's put is not the one the
\* delete had read) is in the Registry Map.
C36_NoRegistrationLost ==
    hist.kind = "regDelete" /\ hist.ok
        => \A m \in DOMAIN hist.before \ {hist.name} :
            (m \notin DOMAIN hist.array \/ hist.array[m] # hist.before[m])
                => m \in DOMAIN registry

\* C37: a deleted load balancer never reappears without a new register call
\* from a client: while n is deleted and no client has registered it again, a
\* cold-start replay that is still in progress and has come to n gives the
\* actor addressed by n no config, arms no timer for it and does not put n
\* back into the Registry Map.
C37_DeletedNeverReappears ==
    [][\A n \in Names :
        gone[n] # NotGone /\ replay.await = n
            => /\ stConfig'[n] = NoConfig
               /\ ~Armed(alarm'[n])
               /\ n \in DOMAIN registry'
                    => \/ n \in DOMAIN registry
                       \/ hist'.kind = "setConfig" /\ hist'.actor = "default"]_vars

\* the place of a progress event in the order of the steps; a terminal event
\* (completed = true) comes last
EventRank(e) ==
    CASE e.completed -> 4
      [] e.currentStep = TextAt(1) -> 1
      [] e.currentStep = TextAt(3) -> 2
      [] e.currentStep = TextAt(5) -> 3
      [] OTHER -> 0

\* C38: the progress events pushed for one Deployment Workflow follow the step
\* order and never go back: checking, then deploying, then updating rules,
\* then one terminal event, each at most once; this also holds when the
\* workflow crashes and resumes part-way.
C38_EventsFollowStepOrder ==
    \A id \in DOMAIN dwf :
        LET ev == dwf[id].events
        IN  \A i, j \in DOMAIN ev :
                i < j => /\ EventRank(ev[i]) > 0
                         /\ EventRank(ev[i]) < EventRank(ev[j])

\* C39: deployments of two load balancers with different names never replace
\* each other's artifact or routing rule: the sanitized artifact names of any
\* two distinct registered names are distinct, and after deployments of two
\* different names have succeeded one after the other the external rule list
\* holds the rule of each.
C39_DistinctNamesDistinctArtifacts ==
    /\ \A m, n \in DOMAIN registry :
        m # n => Sanitize(Spelling(m)) # Sanitize(Spelling(n))
    /\ \A i, j \in DOMAIN dwf :
        dwf[i].name # dwf[j].name /\ dwf[i].state = "done"
            /\ dwf[j].state = "done"
            => /\ RuleOf(dwf[i].name) \in Range(ext.rules)
               /\ RuleOf(dwf[j].name) \in Range(ext.rules)

\* C40: no health verdict is fabricated: list() reports an isHealthy value for
\* host h of load balancer n only if a probe result for (n, h) has been
\* applied since the record of h was created; a host whose Monitor Workflow
\* has only been scheduled is absent from healthStatus.  A probe result can
\* have been applied only by a Monitor Workflow that is no longer pending, so
\* while every Monitor Workflow created so far is still pending the
\* healthStatus map of every listed load balancer is empty.
C40_NoFabricatedVerdict ==
    hist.kind = "list" /\ hist.ok /\ DOMAIN wfs = 1..wfCount
        => \A n \in DOMAIN hist.list :
                DOMAIN hist.list[n].healthStatus = {}

====
